---- MODULE Spec2Model ----
(***************************************************************************)
(* Verification model of the counter-UAS radar tracker (Tracker_CUxS).     *)
(*                                                                         *)
(* The specifications share the configuration variable cfg:              *)
(*   Spec        the per-dwell track manager (TrackManager::processDwell   *)
(*               and the TrackInitiator it drives), one action per stage;  *)
(*   SpecQuiet   the same manager over a long, sparse scene under a        *)
(*               configuration that never promotes a candidate;            *)
(*   SpecAssoc   the association engine applied to bounded inputs;         *)
(*   SpecPipe    the pipeline: receiver thread, processing thread running  *)
(*               the manager's stages, and the thread that calls stop();   *)
(*   SpecPipeRun the pipeline while stop() is not called, the processing   *)
(*               thread scheduled fairly;                                  *)
(*   SpecLife    the life of the pipeline object: start() and its          *)
(*               failures, stop(), a second stop(), the destructor;        *)
(*   SpecScenario the manager in the straight-line scenario (one target,   *)
(*               m = 3, n = 5, confirmHits = 3);                           *)
(*   SpecDt      the prediction interval processDwell derives from the     *)
(*               timestamps of consecutive dwells;                         *)
(*   SpecClock   the initiator's gate and initial velocity in two runs     *)
(*               that process the same dwells at different instants;       *)
(*   SpecImm     IMMFilter::predict and IMMFilter::update in one           *)
(*               measurement dimension, in exact rational arithmetic;      *)
(*   SpecJpdaUpdate  the association and update of one track with two      *)
(*               clusters under JPDA;                                      *)
(*   SpecClassify    TrackManager::classifyTracks on one track;            *)
(*   SpecPreprocess  Preprocessor::process on batches of detections, a     *)
(*               field being a number of the grid or NaN;                  *)
(*   SpecCluster     DBSCAN and range-gate clustering of one dwell;        *)
(*   SpecDeserialize MessageSerializer::deserialize and                    *)
(*               deserializeTrackTable on a buffer length and a 32-bit     *)
(*               record count;                                             *)
(*   SpecStop    stop() against the processing thread and the receiver     *)
(*               thread, step by step, every thread scheduled fairly.      *)
(*                                                                         *)
(* Abstractions.  Real-valued quantities are kept on small integer grids:  *)
(*   - a Mahalanobis squared distance is one of Dists (the thresholds of   *)
(*     the configuration are points of the same grid);                     *)
(*   - track quality is in twentieths (QOne = 1.0);                        *)
(*   - a range is one of RangeVals (coarse bands, compared with the        *)
(*     configured maxInitiationRange and maxRange);                        *)
(*   - the angular/range initiation gate is "same cell".                   *)
(* Indices are 1-based here and 0-based in the source.                     *)
(***************************************************************************)
EXTENDS Integers, Sequences, FiniteSets, TLC

VARIABLES
    cfg,          \* TrackerConfig (the fields the core reads)
    tracks,       \* TrackManager::tracks_
    candidates,   \* TrackInitiator::candidates_
    nextId,       \* TrackInitiator::nextId_
    dwellCount,   \* TrackManager::dwellCount_
    pc,           \* position inside processDwell
    assoc,        \* who was hit, missed, promoted and deleted in the dwell in progress (history)
    startTracks,  \* tracks_ as it was when the dwell began (history)
    deletedIds,   \* ids of the tracks marked Deleted so far (history)
    issuedIds,    \* ids returned by nextTrackId, in order (history)
    aIn,          \* the input of the function under study (SpecAssoc: of AssociationEngine::process)
    aOut,         \* its result (SpecAssoc: the AssociationOutput)
    aPc,          \* which function is under study, and whether it has run
    messageQueue, \* TrackerPipeline::messageQueue_ (messages are numbered as appended)
    running,      \* TrackerPipeline::running_
    appended,     \* number of messages appended by onDetectionReceived so far
    pPc,          \* position of the processing thread in processingLoop
    sPc,          \* position of the thread that calls stop()
    curMsg,       \* processingLoop's local msg
    senderOpen,   \* FALSE once TrackSender::close has run
    popped,       \* the processDwell invocations, in order (history)
    cycles        \* what each completed cycle handed to the sender (history)

tmVars == <<tracks, candidates, nextId, dwellCount, pc, assoc,
            startTracks, deletedIds, issuedIds>>
assocVars == <<aIn, aOut, aPc>>
pipeVars == <<messageQueue, running, appended, pPc, sPc, curMsg, senderOpen,
              popped, cycles>>
vars == <<cfg, tmVars, assocVars, pipeVars>>

(***************************************************************************)
(* Bounds of the model.                                                    *)
(***************************************************************************)
MaxDwells == 4
MaxClusters == 2
MaxTracks == 2
AssocMaxTracks == 2
AssocMaxClusters == 2
MaxMsgs == 3
TsMod == 16
MaxQuietDwells == 8
MaxQuietClusters == 1
MaxScenarioDwells == 6
MaxCalls == 2
MaxBatch == 2
MaxDets == 4

(***************************************************************************)
(* Value grids.                                                            *)
(***************************************************************************)
Dists == {0, 1, 2, 3, 4}
LifeDists == {0, 4}
RangeVals == {1, 3}
Cells == {1, 2}
QOne == 20
INF == 1000000

Min2(a, b) == IF a < b THEN a ELSE b
Max2(a, b) == IF a > b THEN a ELSE b
SeqRange(s) == {s[i] : i \in 1..Len(s)}

(***************************************************************************)
(* Configuration.  BaseConfig is the default configuration of config.h on  *)
(* the grids above, with the dwell counts shortened so that a whole track  *)
(* life fits in MaxDwells; Configs varies the fields the claims speak of.  *)
(***************************************************************************)
BaseConfig ==
    [ maxTracks            |-> 1,
      method               |-> "gnn",
      gatingThreshold      |-> 2,
      distanceThreshold    |-> 1,
      costThreshold        |-> 2,
      gateSize             |-> 2,
      clutterDensity       |-> 100,
      detectionProbability |-> 90,
      m                    |-> 2,
      n                    |-> 3,
      maxInitiationRange   |-> 1,
      confirmHits          |-> 2,
      coastingLimit        |-> 10,
      deleteAfterMisses    |-> 15,
      qualityDecayRate     |-> 95,
      qualityBoost         |-> 2,
      maxCoastingDwells    |-> 2,
      minQuality           |-> 1,
      maxRange             |-> 2,
      sendDeletedTracks    |-> TRUE ]

Configs ==
    { [BaseConfig EXCEPT !.costThreshold = 3],
      [BaseConfig EXCEPT !.method = "mahalanobis", !.confirmHits = 3,
                         !.maxCoastingDwells = 3, !.coastingLimit = 1,
                         !.deleteAfterMisses = 1, !.qualityDecayRate = 50,
                         !.minQuality = 4, !.n = 2],
      [BaseConfig EXCEPT !.method = "jpda", !.confirmHits = 1,
                         !.gateSize = 3, !.clutterDensity = 2500,
                         !.maxCoastingDwells = 3, !.maxInitiationRange = 3] }

\* a configuration under which no candidate is ever promoted (a candidate is
\* tested only after its second hit, when total = 2 > n), used to follow the
\* initiator alone over a long quiet period
QuietConfig == [BaseConfig EXCEPT !.m = 1, !.n = 1]

\* the straight-line scenario: m = 3, n = 5, confirmHits = 3, every range of
\* the grid inside maxInitiationRange and maxRange, a quality boost that
\* reaches 1.0 within the scenario
ScenarioConfig == [BaseConfig EXCEPT !.m = 3, !.n = 5, !.confirmHits = 3,
                                     !.maxInitiationRange = 3, !.maxRange = 3,
                                     !.qualityBoost = 6]

(***************************************************************************)
(* Association.  dist[t][c] is the Mahalanobis squared distance of track t *)
(* to cluster c, sing[t] says that invertMeas failed for track t.          *)
(***************************************************************************)
EmptyOutput == [matched |-> <<>>, unmatchedTracks |-> <<>>, unmatchedClusters |-> <<>>]

\* the indices 1..n that are not in the set s, ascending
RECURSIVE IndicesNotIn(_, _, _)
IndicesNotIn(i, n, s) ==
    IF i > n THEN <<>>
    ELSE (IF i \in s THEN <<>> ELSE <<i>>) \o IndicesNotIn(i + 1, n, s)

MatchedTrackSet(out) == {out.matched[k].trackIndex : k \in 1..Len(out.matched)}
MatchedClusterSet(out) == {out.matched[k].clusterIndex : k \in 1..Len(out.matched)}

\* ---- nearest neighbour (MahalanobisAssociator) ----
MahCandidates(c, nT, nC, dist, sing) ==
    LET all == [k \in 1..(nT * nC) |->
                  LET t == ((k - 1) \div nC) + 1
                      j == ((k - 1) % nC) + 1
                  IN [trackIdx |-> t, clusterIdx |-> j, distance |-> dist[t][j]]]
    IN SelectSeq(all, LAMBDA x : ~sing[x.trackIdx] /\ x.distance <= c.gatingThreshold)

\* std::sort by distance; for the handful of candidates of a dwell the
\* library's insertion sort is used, which keeps equal distances in order
RECURSIVE InsertByDistance(_, _)
InsertByDistance(s, x) ==
    IF s = <<>> THEN <<x>>
    ELSE IF x.distance < Head(s).distance THEN <<x>> \o s
         ELSE <<Head(s)>> \o InsertByDistance(Tail(s), x)

RECURSIVE SortByDistance(_)
SortByDistance(s) ==
    IF s = <<>> THEN <<>>
    ELSE InsertByDistance(SortByDistance(SubSeq(s, 1, Len(s) - 1)), s[Len(s)])

RECURSIVE MahGreedy(_, _, _)
MahGreedy(c, cands, matched) ==
    IF cands = <<>> THEN matched
    ELSE LET cand == Head(cands)
             taken == \E k \in 1..Len(matched) :
                         \/ matched[k].trackIndex = cand.trackIdx
                         \/ matched[k].clusterIndex = cand.clusterIdx
         IN IF ~taken /\ cand.distance <= c.distanceThreshold
            THEN MahGreedy(c, Tail(cands),
                           Append(matched, [trackIndex |-> cand.trackIdx,
                                            clusterIndex |-> cand.clusterIdx,
                                            distance |-> cand.distance]))
            ELSE MahGreedy(c, Tail(cands), matched)

MahalanobisAssociate(c, nT, nC, dist, sing) ==
    LET matched == MahGreedy(c, SortByDistance(MahCandidates(c, nT, nC, dist, sing)), <<>>)
        o == [EmptyOutput EXCEPT !.matched = matched]
    IN [o EXCEPT !.unmatchedTracks = IndicesNotIn(1, nT, MatchedTrackSet(o)),
                 !.unmatchedClusters = IndicesNotIn(1, nC, MatchedClusterSet(o))]

\* ---- global nearest neighbour (GNNAssociator) ----
\* cost matrix: the distance inside the gate, INF outside it
GNNCostMatrix(c, nT, nC, dist, sing) ==
    [t \in 1..nT |-> [j \in 1..nC |->
        IF ~sing[t] /\ dist[t][j] <= c.gatingThreshold THEN dist[t][j] ELSE INF]]

\* C[i][j] -= minVal in double arithmetic: an INF entry (1e30) absorbs any
\* gated distance and stays INF
SubCost(x, minVal) == IF x >= INF THEN INF ELSE x - minVal

SetMin(S) == CHOOSE x \in S : \A y \in S : x <= y

PadSquare(costMatrix, nT, nC) ==
    LET n == Max2(nT, nC)
    IN [i \in 1..n |-> [j \in 1..n |->
          IF i <= nT /\ j <= nC THEN costMatrix[i][j] ELSE INF]]

RowReduce(C, n) ==
    [i \in 1..n |->
        LET minVal == SetMin({C[i][j] : j \in 1..n})
        IN [j \in 1..n |-> IF minVal < INF THEN SubCost(C[i][j], minVal) ELSE C[i][j]]]

ColReduce(C, n) ==
    [i \in 1..n |-> [j \in 1..n |->
        LET minVal == SetMin({C[k][j] : k \in 1..n} \cup {INF})
        IN IF minVal < INF THEN SubCost(C[i][j], minVal) ELSE C[i][j]]]

\* the inner loop taking the first unused column whatever its cost
RECURSIVE ScanFirstUnused(_, _, _, _, _, _, _)
ScanFirstUnused(C, i, j, nC, colUsed, bestCost, bestJ) ==
    IF j > nC THEN bestJ
    ELSE IF j \notin colUsed /\ bestJ = 0
         THEN ScanFirstUnused(C, i, j + 1, nC, colUsed, C[i][j], j)
         ELSE ScanFirstUnused(C, i, j + 1, nC, colUsed, bestCost, bestJ)

\* inner loop over the columns: the first unused column of least reduced cost
RECURSIVE ScanBest(_, _, _, _, _, _, _)
ScanBest(C, i, j, nC, colUsed, bestCost, bestJ) ==
    IF j > nC THEN bestJ
    ELSE IF j \notin colUsed /\ C[i][j] < bestCost
         THEN ScanBest(C, i, j + 1, nC, colUsed, C[i][j], j)
         ELSE ScanBest(C, i, j + 1, nC, colUsed, bestCost, bestJ)

\* one step of the greedy loops: track i of pass p; st = [assignment, colUsed];
\* assignment[i] = 0 stands for the source's -1
RECURSIVE GreedyAssign(_, _, _, _, _, _, _, _)
GreedyAssign(c, C, costMatrix, nT, nC, p, i, st) ==
    IF p > 3 THEN st.assignment
    ELSE IF i > nT THEN GreedyAssign(c, C, costMatrix, nT, nC, p + 1, 1, st)
    ELSE IF st.assignment[i] # 0 THEN GreedyAssign(c, C, costMatrix, nT, nC, p, i + 1, st)
    ELSE LET bestJ == ScanBest(C, i, 1, nC, st.colUsed, INF, 0)
         IN IF bestJ > 0 /\ costMatrix[i][bestJ] < c.costThreshold
            THEN GreedyAssign(c, C, costMatrix, nT, nC, p, i + 1,
                              [assignment |-> [st.assignment EXCEPT ![i] = bestJ],
                               colUsed |-> st.colUsed \cup {bestJ}])
            ELSE GreedyAssign(c, C, costMatrix, nT, nC, p, i + 1, st)

hungarianAssignment(c, costMatrix, nT, nC) ==
    LET n == Max2(nT, nC)
        C == ColReduce(RowReduce(PadSquare(costMatrix, nT, nC), n), n)
    IN GreedyAssign(c, C, costMatrix, nT, nC, 1, 1,
                    [assignment |-> [i \in 1..nT |-> 0], colUsed |-> {}])

\* GNNCollect forgetting the tracks it leaves unassigned
RECURSIVE GNNCollectDropUnmatched(_, _, _, _, _, _)
GNNCollectDropUnmatched(assignment, costMatrix, t, nT, nC, out) ==
    IF t > nT THEN out
    ELSE IF assignment[t] >= 1 /\ assignment[t] <= nC
         THEN GNNCollectDropUnmatched(assignment, costMatrix, t + 1, nT, nC,
                [out EXCEPT !.matched = Append(@, [trackIndex |-> t,
                                                   clusterIndex |-> assignment[t],
                                                   distance |-> costMatrix[t][assignment[t]]])])
         ELSE GNNCollectDropUnmatched(assignment, costMatrix, t + 1, nT, nC, out)

RECURSIVE GNNCollect(_, _, _, _, _, _)
GNNCollect(assignment, costMatrix, t, nT, nC, out) ==
    IF t > nT THEN out
    ELSE IF assignment[t] >= 1 /\ assignment[t] <= nC
         THEN GNNCollect(assignment, costMatrix, t + 1, nT, nC,
                [out EXCEPT !.matched = Append(@, [trackIndex |-> t,
                                                   clusterIndex |-> assignment[t],
                                                   distance |-> costMatrix[t][assignment[t]]])])
         ELSE GNNCollect(assignment, costMatrix, t + 1, nT, nC,
                [out EXCEPT !.unmatchedTracks = Append(@, t)])

GNNAssociate(c, nT, nC, dist, sing) ==
    LET costMatrix == GNNCostMatrix(c, nT, nC, dist, sing)
        assignment == hungarianAssignment(c, costMatrix, nT, nC)
        o == GNNCollect(assignment, costMatrix, 1, nT, nC, EmptyOutput)
    IN [o EXCEPT !.unmatchedClusters = IndicesNotIn(1, nC, MatchedClusterSet(o))]

\* ---- JPDA (JPDAAssociator) ----
\* exp(-d/2) in thousandths; the normaliser sqrt((2 pi)^3 |S|) is folded into
\* the unit of clutterDensity
ExpHalf(d) == CASE d = 0 -> 1000 [] d = 1 -> 607 [] d = 2 -> 368 [] d = 3 -> 223
                [] d = 4 -> 135 [] OTHER -> 82

\* weights of one track: betaZero and the betas are fractions over one
\* denominator, kept as numerators (den = 0 stands for betaZero = 1.0 without
\* cluster weights)
JPDATrackWeights(c, t, nC, dist, sing) ==
    LET pd == c.detectionProbability
        gated == SelectSeq([j \in 1..nC |-> j],
                           LAMBDA j : dist[t][j] <= c.gateSize)
        pdLik(j) == pd * ExpHalf(dist[t][j])
        RECURSIVE Sum(_)
        Sum(s) == IF s = <<>> THEN 0 ELSE pdLik(Head(s)) + Sum(Tail(s))
        sumLik == Sum(gated)
        betaZeroNum == (100 - pd) * c.clutterDensity
        denominator == betaZeroNum + sumLik
        none == [trackIndex |-> t, betaZeroNum |-> 1, den |-> 1, clusterWeights |-> <<>>]
    IN IF sing[t] \/ gated = <<>> \/ denominator < 1 THEN none
       ELSE [trackIndex |-> t, betaZeroNum |-> betaZeroNum, den |-> denominator,
             clusterWeights |-> [k \in 1..Len(gated) |->
                                    [cluster |-> gated[k], num |-> pdLik(gated[k])]]]

computeWeights(c, nT, nC, dist, sing) ==
    [t \in 1..nT |-> JPDATrackWeights(c, t, nC, dist, sing)]

\* the measurement of highest beta, the last of equal betas
RECURSIVE JPDABestLast(_, _, _, _)
JPDABestLast(cw, k, bestNum, bestCluster) ==
    IF k > Len(cw) THEN [cluster |-> bestCluster, num |-> bestNum]
    ELSE IF cw[k].num >= bestNum
         THEN JPDABestLast(cw, k + 1, cw[k].num, cw[k].cluster)
         ELSE JPDABestLast(cw, k + 1, bestNum, bestCluster)

\* the measurement of highest beta: strict >, so the first of equal betas
RECURSIVE JPDABest(_, _, _, _)
JPDABest(cw, k, bestNum, bestCluster) ==
    IF k > Len(cw) THEN [cluster |-> bestCluster, num |-> bestNum]
    ELSE IF cw[k].num > bestNum
         THEN JPDABest(cw, k + 1, cw[k].num, cw[k].cluster)
         ELSE JPDABest(cw, k + 1, bestNum, bestCluster)

\* the reported pseudo-distance 1 - bestBeta, in thousandths
RECURSIVE JPDACollect(_, _, _)
JPDACollect(weights, k, out) ==
    IF k > Len(weights) THEN out
    ELSE LET w == weights[k]
             best == JPDABest(w.clusterWeights, 1, 0, 0)
         IN IF w.clusterWeights = <<>> \/ 2 * w.betaZeroNum > w.den
            THEN JPDACollect(weights, k + 1,
                    [out EXCEPT !.unmatchedTracks = Append(@, w.trackIndex)])
            ELSE IF best.cluster >= 1
            THEN JPDACollect(weights, k + 1,
                    [out EXCEPT !.matched = Append(@,
                        [trackIndex |-> w.trackIndex, clusterIndex |-> best.cluster,
                         distance |-> 1000 - ((1000 * best.num) \div w.den)])])
            ELSE JPDACollect(weights, k + 1,
                    [out EXCEPT !.unmatchedTracks = Append(@, w.trackIndex)])

JPDAAssociate(c, nT, nC, dist, sing) ==
    LET o == JPDACollect(computeWeights(c, nT, nC, dist, sing), 1, EmptyOutput)
    IN [o EXCEPT !.unmatchedClusters = IndicesNotIn(1, nC, MatchedClusterSet(o))]

\* ---- AssociationEngine::process ----
\* whether process hands the dwell to the configured associator
AssociatorInvoked(nT, nC) == ~(nT = 0 \/ nC = 0)

\* process with a short-cut that forgets the tracks
AssociationEngineProcessDropTracks(c, nT, nC, dist, sing) ==
    IF ~AssociatorInvoked(nT, nC)
    THEN [EmptyOutput EXCEPT !.unmatchedClusters = [i \in 1..nC |-> i]]
    ELSE CASE c.method = "mahalanobis" -> MahalanobisAssociate(c, nT, nC, dist, sing)
           [] c.method = "gnn"         -> GNNAssociate(c, nT, nC, dist, sing)
           [] c.method = "jpda"        -> JPDAAssociate(c, nT, nC, dist, sing)

AssociationEngineProcess(c, nT, nC, dist, sing) ==
    IF ~AssociatorInvoked(nT, nC)
    THEN [EmptyOutput EXCEPT !.unmatchedTracks = [i \in 1..nT |-> i],
                             !.unmatchedClusters = [i \in 1..nC |-> i]]
    ELSE CASE c.method = "mahalanobis" -> MahalanobisAssociate(c, nT, nC, dist, sing)
           [] c.method = "gnn"         -> GNNAssociate(c, nT, nC, dist, sing)
           [] c.method = "jpda"        -> JPDAAssociate(c, nT, nC, dist, sing)

(***************************************************************************)
(* Track entity (Track) and initiator (TrackInitiator).                    *)
(***************************************************************************)
Statuses == {"Tentative", "Confirmed", "Coasting", "Deleted"}

\* a track that starts without its first hit
NewTrackNoHit(id, cluster) ==
    [ id |-> id, status |-> "Tentative",
      hitCount |-> 0, missCount |-> 0, consecutiveMisses |-> 0, age |-> 0,
      quality |-> 10, range |-> cluster.range ]

\* Track::Track: the member initialisers and hitCount_ = 1; the initial
\* position is the promoting cluster's (the classification and the
\* timestamps are not carried)
NewTrack(id, cluster) ==
    [ id |-> id, status |-> "Tentative",
      hitCount |-> 1, missCount |-> 0, consecutiveMisses |-> 0, age |-> 0,
      quality |-> 10, range |-> cluster.range ]

\* recordHit without the reset of consecutiveMisses_
recordHitKeepMisses(t) == [t EXCEPT !.hitCount = @ + 1]

recordHit(t) == [t EXCEPT !.hitCount = @ + 1, !.consecutiveMisses = 0]
\* recordMiss without the miss counter
recordMissNoCount(t) == [t EXCEPT !.consecutiveMisses = @ + 1]

recordMiss(t) == [t EXCEPT !.missCount = @ + 1, !.consecutiveMisses = @ + 1]
incrementAge(t) == [t EXCEPT !.age = @ + 1]

\* the initiation gate of a cluster against the last detection of a candidate
InGate(cluster, last) == cluster.cell = last.cell

\* index of the first candidate the cluster extends, 0 if none
RECURSIVE FirstMatch(_, _, _)
FirstMatch(cands, k, cluster) ==
    IF k > Len(cands) THEN 0
    ELSE IF ~cands[k].promoted /\ cands[k].history # <<>>
            /\ InGate(cluster, cands[k].history[Len(cands[k].history)])
         THEN k
         ELSE FirstMatch(cands, k + 1, cluster)

\* nextTrackId without the increment
nextTrackIdNoIncrement(nid) == [id |-> nid, nextId |-> nid]

\* TrackInitiator::nextTrackId: return nextId_++
nextTrackId(nid) == [id |-> nid, nextId |-> nid + 1]

\* the M-of-N test made after a candidate was extended
MOfN(c, cand) == cand.hits >= c.m /\ cand.total <= c.n

\* st = [cands, newTracks, nextId, promoted]; promoted collects the dwell
\* indices of the histories that were promoted (history variable)
RECURSIVE processCandidates(_, _, _, _)
processCandidates(c, unmatched, dwell, st) ==
    IF unmatched = <<>> THEN st
    ELSE LET cluster == Head(unmatched)
             td == [cell |-> cluster.cell, dwellCount |-> dwell]
             k == FirstMatch(st.cands, 1, cluster)
         IN IF cluster.range > c.maxInitiationRange
            THEN processCandidates(c, Tail(unmatched), dwell, st)
            ELSE IF k = 0
            THEN processCandidates(c, Tail(unmatched), dwell,
                    [st EXCEPT !.cands = Append(@, [history |-> <<td>>, hits |-> 1,
                                                    total |-> 1, promoted |-> FALSE])])
            ELSE LET ext == [st.cands[k] EXCEPT !.history = Append(@, td),
                                                !.hits = @ + 1, !.total = @ + 1]
                 IN IF MOfN(c, ext)
                    THEN processCandidates(c, Tail(unmatched), dwell,
                            [cands |-> [st.cands EXCEPT ![k] = [ext EXCEPT !.promoted = TRUE]],
                             newTracks |-> Append(st.newTracks,
                                             NewTrack(nextTrackId(st.nextId).id, cluster)),
                             nextId |-> nextTrackId(st.nextId).nextId,
                             promoted |-> Append(st.promoted,
                                 [j \in 1..Len(ext.history) |-> ext.history[j].dwellCount])])
                    ELSE processCandidates(c, Tail(unmatched), dwell,
                            [st EXCEPT !.cands[k] = ext])

Stale(c, cand, currentDwell) ==
    \/ cand.promoted
    \/ cand.history = <<>>
    \/ cand.total >= c.n /\ cand.hits < c.m
    \/ currentDwell - cand.history[1].dwellCount > c.n + 5

purgeStaleCandidates(c, cands, currentDwell) ==
    SelectSeq(cands, LAMBDA cand : ~Stale(c, cand, currentDwell))

(***************************************************************************)
(* Track manager (TrackManager), one action per stage of processDwell.     *)
(***************************************************************************)
ClusterVals == [cell : Cells, range : RangeVals]
ClusterLists == UNION {[1..k -> ClusterVals] : k \in 0..MaxClusters}

QuietClusterLists == UNION {[1..k -> ClusterVals] : k \in 0..MaxQuietClusters}

\* one target: one cluster a dwell, always in the same initiation gate
ScenarioClusterLists == {<<[cell |-> 1, range |-> r]>> : r \in RangeVals}

\* what the radar may deliver: under QuietConfig a sparse scene (at most
\* MaxQuietClusters clusters a dwell) over MaxQuietDwells dwells, under
\* ScenarioConfig the single target over MaxScenarioDwells dwells, otherwise
\* any cluster list over MaxDwells dwells
Scene(c) ==
    IF c = QuietConfig
    THEN [dwells |-> MaxQuietDwells, clusters |-> QuietClusterLists]
    ELSE IF c = ScenarioConfig
    THEN [dwells |-> MaxScenarioDwells, clusters |-> ScenarioClusterLists]
    ELSE [dwells |-> MaxDwells, clusters |-> ClusterLists]

NoAssoc == [matchedIds |-> {}, missedIds |-> {}, promoted |-> <<>>, deleted |-> {},
            nClusters |-> 0, invoked |-> FALSE]
NoInput == [nT |-> 0, nC |-> 0, dist |-> <<>>, sing |-> <<>>]

Ids(ts) == {ts[i].id : i \in 1..Len(ts)}

\* IMMFilter::predict moves the estimate (r is the band it ends in);
\* Track::incrementAge
predictTrack(t, r) ==
    IF t.status = "Deleted" THEN t ELSE [incrementAge(t) EXCEPT !.range = r]

\* IMMFilter::update with the cluster's measurement, then Track::recordHit
RECURSIVE updateMatchedTracks(_, _, _, _)
updateMatchedTracks(ts, activeIndices, matched, cl) ==
    IF matched = <<>> THEN ts
    ELSE LET match == Head(matched)
             origIdx == activeIndices[match.trackIndex]
             cluster == cl[match.clusterIndex]
         IN updateMatchedTracks(
                [ts EXCEPT ![origIdx] = recordHit([@ EXCEPT !.range = cluster.range])],
                activeIndices, Tail(matched), cl)

RECURSIVE handleUnmatchedTracks(_, _, _)
handleUnmatchedTracks(ts, activeIndices, unmatchedTracks) ==
    IF unmatchedTracks = <<>> THEN ts
    ELSE handleUnmatchedTracks(
            [ts EXCEPT ![activeIndices[Head(unmatchedTracks)]] = recordMiss(@)],
            activeIndices, Tail(unmatchedTracks))

\* maintainTrack whose coasting test is not restricted to Confirmed tracks
maintainTrackCoastAny(c, t) ==
    IF t.status = "Deleted" THEN t
    ELSE LET q == IF t.consecutiveMisses = 0
                  THEN Min2(QOne, t.quality + c.qualityBoost)
                  ELSE (t.quality * c.qualityDecayRate) \div 100
             s == CASE t.status = "Tentative" /\ t.hitCount >= c.confirmHits -> "Confirmed"
                    [] t.status # "Coasting" /\ t.consecutiveMisses > 0 -> "Coasting"
                    [] t.status = "Coasting" /\ t.consecutiveMisses = 0 -> "Confirmed"
                    [] OTHER -> t.status
         IN [t EXCEPT !.quality = q, !.status = s]

\* the quality boost without its ceiling
maintainTrackNoCap(c, t) ==
    IF t.status = "Deleted" THEN t
    ELSE LET q == IF t.consecutiveMisses = 0
                  THEN t.quality + c.qualityBoost
                  ELSE (t.quality * c.qualityDecayRate) \div 100
             s == CASE t.status = "Tentative" /\ t.hitCount >= c.confirmHits -> "Confirmed"
                    [] t.status = "Confirmed" /\ t.consecutiveMisses > 0 -> "Coasting"
                    [] t.status = "Coasting" /\ t.consecutiveMisses = 0 -> "Confirmed"
                    [] OTHER -> t.status
         IN [t EXCEPT !.quality = q, !.status = s]

\* maintainTrack that leaves a coasting track coasting after a hit
maintainTrackNoRecover(c, t) ==
    IF t.status = "Deleted" THEN t
    ELSE LET q == IF t.consecutiveMisses = 0
                  THEN Min2(QOne, t.quality + c.qualityBoost)
                  ELSE (t.quality * c.qualityDecayRate) \div 100
             s == CASE t.status = "Tentative" /\ t.hitCount >= c.confirmHits -> "Confirmed"
                    [] t.status = "Confirmed" /\ t.consecutiveMisses > 0 -> "Coasting"
                    [] OTHER -> t.status
         IN [t EXCEPT !.quality = q, !.status = s]

\* quality update and status transitions of one track
maintainTrack(c, t) ==
    IF t.status = "Deleted" THEN t
    ELSE LET q == IF t.consecutiveMisses = 0
                  THEN Min2(QOne, t.quality + c.qualityBoost)
                  ELSE (t.quality * c.qualityDecayRate) \div 100
             s == CASE t.status = "Tentative" /\ t.hitCount >= c.confirmHits -> "Confirmed"
                    [] t.status = "Confirmed" /\ t.consecutiveMisses > 0 -> "Coasting"
                    [] t.status = "Coasting" /\ t.consecutiveMisses = 0 -> "Confirmed"
                    [] OTHER -> t.status
         IN [t EXCEPT !.quality = q, !.status = s]

\* shouldDelete reading the miss limit of the maintenance section
shouldDeleteAfterMisses(c, t) ==
    \/ t.consecutiveMisses >= c.deleteAfterMisses
    \/ t.quality < c.minQuality
    \/ t.range > c.maxRange

\* shouldDelete with a strict comparison of the miss count
shouldDeleteStrict(c, t) ==
    \/ t.consecutiveMisses > c.maxCoastingDwells
    \/ t.quality < c.minQuality
    \/ t.range > c.maxRange

shouldDelete(c, t) ==
    \/ t.consecutiveMisses >= c.maxCoastingDwells
    \/ t.quality < c.minQuality
    \/ t.range > c.maxRange

markDeleted(c, t) ==
    IF t.status # "Deleted" /\ shouldDelete(c, t) THEN [t EXCEPT !.status = "Deleted"] ELSE t

\* deleteTracks without the erase
pruneNothing(ts) == ts

\* std::remove_if over tracks_
pruneDeleted(ts) == SelectSeq(ts, LAMBDA t : t.status # "Deleted")

Init ==
    /\ cfg \in Configs
    /\ tracks = <<>>
    /\ candidates = <<>>
    /\ nextId = 1
    /\ dwellCount = 0
    /\ pc = "idle"
    /\ assoc = NoAssoc
    /\ startTracks = <<>>
    /\ deletedIds = {}
    /\ issuedIds = <<>>
    /\ aIn = NoInput
    /\ aOut = EmptyOutput
    /\ aPc = "off"
    /\ messageQueue = <<>>
    /\ running = FALSE
    /\ appended = 0
    /\ pPc = "none"
    /\ sPc = "none"
    /\ curMsg = 0
    /\ senderOpen = FALSE
    /\ popped = <<>>
    /\ cycles = <<>>

\* processDwell up to and including predict(dt)
Predict ==
    /\ pc = "idle"
    /\ dwellCount < Scene(cfg).dwells
    /\ \E r \in [1..Len(tracks) -> RangeVals] :
          tracks' = [i \in 1..Len(tracks) |-> predictTrack(tracks[i], r[i])]
    /\ dwellCount' = dwellCount + 1
    /\ startTracks' = tracks
    /\ assoc' = NoAssoc
    /\ pc' = "predicted"
    /\ UNCHANGED <<cfg, candidates, nextId, deletedIds, issuedIds, assocVars, pipeVars>>

\* associate(clusters) on the clusters of the dwell: what it leaves in
\* tracks_, in the initiator, and its record for the history variable
associate(c, ts, cands, nid, dwell, clusters, activeIndices, out) ==
    LET hit == updateMatchedTracks(ts, activeIndices, out.matched, clusters)
        missed == handleUnmatchedTracks(hit, activeIndices, out.unmatchedTracks)
        unmatchedClusters == [k \in 1..Len(out.unmatchedClusters) |->
                                 clusters[out.unmatchedClusters[k]]]
        st0 == [cands |-> cands, newTracks |-> <<>>, nextId |-> nid, promoted |-> <<>>]
        st == IF unmatchedClusters # <<>>
              THEN processCandidates(c, unmatchedClusters, dwell, st0)
              ELSE st0
    IN [ tracks |-> missed \o st.newTracks,
         candidates |-> IF unmatchedClusters # <<>>
                        THEN purgeStaleCandidates(c, st.cands, dwell)
                        ELSE cands,
         nextId |-> st.nextId,
         issued |-> [k \in 1..Len(st.newTracks) |-> st.newTracks[k].id],
         record |-> [matchedIds |-> {ts[activeIndices[i]].id : i \in MatchedTrackSet(out)},
                     missedIds |-> {ts[activeIndices[i]].id : i \in SeqRange(out.unmatchedTracks)},
                     promoted |-> st.promoted,
                     deleted |-> {},
                     nClusters |-> Len(clusters),
                     invoked |-> AssociatorInvoked(Len(activeIndices), Len(clusters))] ]

\* every innovation covariance of the dwell is invertible
NoSingular(nT) == [t \in 1..nT |-> FALSE]

ActiveIndices(ts) == SelectSeq([i \in 1..Len(ts) |-> i], LAMBDA i : ts[i].status # "Deleted")

Associate ==
    /\ pc = "predicted"
    /\ \E clusters \in Scene(cfg).clusters :
         \E dist \in [1..Len(ActiveIndices(tracks)) -> [1..Len(clusters) -> LifeDists]] :
           \E out \in {AssociationEngineProcess(cfg, Len(ActiveIndices(tracks)),
                                                Len(clusters), dist,
                                                NoSingular(Len(ActiveIndices(tracks))))} :
             \E res \in {associate(cfg, tracks, candidates, nextId, dwellCount,
                                   clusters, ActiveIndices(tracks), out)} :
                /\ Len(res.tracks) <= MaxTracks
                /\ tracks' = res.tracks
                /\ candidates' = res.candidates
                /\ nextId' = res.nextId
                /\ issuedIds' = issuedIds \o res.issued
                /\ assoc' = res.record
    /\ pc' = "associated"
    /\ UNCHANGED <<cfg, dwellCount, startTracks, deletedIds, assocVars, pipeVars>>

MaintainTracks ==
    /\ pc = "associated"
    /\ tracks' = [i \in 1..Len(tracks) |-> maintainTrack(cfg, tracks[i])]
    /\ pc' = "maintained"
    /\ UNCHANGED <<cfg, candidates, nextId, dwellCount, assoc, startTracks,
                   deletedIds, issuedIds, assocVars, pipeVars>>

DeleteTracks ==
    /\ pc = "maintained"
    /\ LET marked == [i \in 1..Len(tracks) |-> markDeleted(cfg, tracks[i])]
       IN /\ tracks' = pruneDeleted(marked)
          /\ deletedIds' = deletedIds \cup
                 {marked[i].id : i \in {j \in 1..Len(marked) : marked[j].status = "Deleted"}}
          /\ assoc' = [assoc EXCEPT !.deleted =
                 {marked[i] : i \in {j \in 1..Len(marked) : marked[j].status = "Deleted"}}]
    /\ pc' = "deleted"
    /\ UNCHANGED <<cfg, candidates, nextId, dwellCount, startTracks, issuedIds, assocVars, pipeVars>>

\* classifyTracks and the end of processDwell.  classifyTracks writes only
\* the classification of the non-Deleted tracks, a field that no stage of the
\* manager reads and that the track records of this specification do not
\* carry; the counters, the status and the table itself are left as they are.
ClassifyTracks ==
    /\ pc = "deleted"
    /\ tracks' = tracks
    /\ pc' = "idle"
    /\ assoc' = NoAssoc
    /\ startTracks' = <<>>
    /\ UNCHANGED <<cfg, candidates, nextId, dwellCount, deletedIds, issuedIds, assocVars, pipeVars>>

Next == Predict \/ Associate \/ MaintainTracks \/ DeleteTracks \/ ClassifyTracks

Spec == Init /\ [][Next]_vars

\* the same manager under QuietConfig
InitQuiet ==
    /\ cfg = QuietConfig
    /\ tracks = <<>>
    /\ candidates = <<>>
    /\ nextId = 1
    /\ dwellCount = 0
    /\ pc = "idle"
    /\ assoc = NoAssoc
    /\ startTracks = <<>>
    /\ deletedIds = {}
    /\ issuedIds = <<>>
    /\ aIn = NoInput
    /\ aOut = EmptyOutput
    /\ aPc = "off"
    /\ messageQueue = <<>>
    /\ running = FALSE
    /\ appended = 0
    /\ pPc = "none"
    /\ sPc = "none"
    /\ curMsg = 0
    /\ senderOpen = FALSE
    /\ popped = <<>>
    /\ cycles = <<>>

SpecQuiet == InitQuiet /\ [][Next]_vars

\* the same manager in the straight-line scenario
InitScenario ==
    /\ cfg = ScenarioConfig
    /\ tracks = <<>>
    /\ candidates = <<>>
    /\ nextId = 1
    /\ dwellCount = 0
    /\ pc = "idle"
    /\ assoc = NoAssoc
    /\ startTracks = <<>>
    /\ deletedIds = {}
    /\ issuedIds = <<>>
    /\ aIn = NoInput
    /\ aOut = EmptyOutput
    /\ aPc = "off"
    /\ messageQueue = <<>>
    /\ running = FALSE
    /\ appended = 0
    /\ pPc = "none"
    /\ sPc = "none"
    /\ curMsg = 0
    /\ senderOpen = FALSE
    /\ popped = <<>>
    /\ cycles = <<>>

SpecScenario == InitScenario /\ [][Next]_vars

(***************************************************************************)
(* The association engine on bounded inputs.                               *)
(***************************************************************************)
AssocInputs ==
    UNION {UNION {[nT : {a}, nC : {b}, dist : [1..a -> [1..b -> Dists]],
                   sing : [1..a -> BOOLEAN]] : b \in 0..AssocMaxClusters}
           : a \in 0..AssocMaxTracks}

\* the configurations the engine is run under: Configs and the default
\* relation of the thresholds (gnn.costThreshold = gatingThreshold)
AssocConfigs == Configs \cup {BaseConfig}

InitAssoc ==
    /\ cfg \in AssocConfigs
    /\ aIn \in AssocInputs
    /\ aOut = EmptyOutput
    /\ aPc = "input"
    /\ tracks = <<>>
    /\ candidates = <<>>
    /\ nextId = 1
    /\ dwellCount = 0
    /\ pc = "off"
    /\ assoc = NoAssoc
    /\ startTracks = <<>>
    /\ deletedIds = {}
    /\ issuedIds = <<>>
    /\ messageQueue = <<>>
    /\ running = FALSE
    /\ appended = 0
    /\ pPc = "none"
    /\ sPc = "none"
    /\ curMsg = 0
    /\ senderOpen = FALSE
    /\ popped = <<>>
    /\ cycles = <<>>

RunAssociation ==
    /\ aPc = "input"
    /\ aOut' = AssociationEngineProcess(cfg, aIn.nT, aIn.nC, aIn.dist, aIn.sing)
    /\ aPc' = "done"
    /\ UNCHANGED <<cfg, aIn, tmVars, pipeVars>>

NextAssoc == RunAssociation

SpecAssoc == InitAssoc /\ [][NextAssoc]_vars

(***************************************************************************)
(* The pipeline (TrackerPipeline): the receiver thread appends messages,   *)
(* the processing thread pops them and runs processDwell stage by stage,   *)
(* a third thread calls stop().  Messages are numbered in the order of     *)
(* their append; the clusters a message carries are drawn when the dwell   *)
(* reaches associate.                                                      *)
(***************************************************************************)
PipeConfigs == Configs \cup {[c EXCEPT !.sendDeletedTracks = FALSE] : c \in Configs}

\* the state start() leaves when it returns true
InitPipe ==
    /\ cfg \in PipeConfigs
    /\ tracks = <<>>
    /\ candidates = <<>>
    /\ nextId = 1
    /\ dwellCount = 0
    /\ pc = "idle"
    /\ assoc = NoAssoc
    /\ startTracks = <<>>
    /\ deletedIds = {}
    /\ issuedIds = <<>>
    /\ aIn = NoInput
    /\ aOut = EmptyOutput
    /\ aPc = "off"
    /\ messageQueue = <<>>
    /\ running = TRUE
    /\ appended = 0
    /\ pPc = "loop"
    /\ sPc = "run"
    /\ curMsg = 0
    /\ senderOpen = TRUE
    /\ popped = <<>>
    /\ cycles = <<>>

\* the receiver thread delivers a message (until DetectionReceiver::stop has
\* joined it): lock, push, unlock, notify_one
onDetectionReceived ==
    /\ sPc \in {"run", "stopReceiver"}
    /\ appended < MaxMsgs
    /\ appended' = appended + 1
    /\ messageQueue' = Append(messageQueue, appended + 1)
    /\ UNCHANGED <<cfg, tmVars, assocVars, running, pPc, sPc, curMsg, senderOpen,
                   popped, cycles>>

\* while (running_.load())
LoopCheck ==
    /\ pPc = "loop"
    /\ pPc' = IF running THEN "wait" ELSE "exit"
    /\ UNCHANGED <<cfg, tmVars, assocVars, messageQueue, running, appended, sPc,
                   curMsg, senderOpen, popped, cycles>>

\* the queue taken from its back
PopBack(q) == [msg |-> q[Len(q)], rest |-> SubSeq(q, 1, Len(q) - 1)]

\* the backlog discarded with every pop
PopFrontDropBacklog(q) == [msg |-> Head(q), rest |-> <<>>]

\* front()/pop() of the queue
PopFront(q) == [msg |-> Head(q), rest |-> Tail(q)]

\* the locked block: wait_for returns on a message, on !running_ or on the
\* timeout; break, continue or pop one message
WaitAndPop ==
    /\ pPc = "wait"
    /\ IF ~running
       THEN pPc' = "exit" /\ UNCHANGED <<messageQueue, curMsg>>
       ELSE IF messageQueue = <<>>
       THEN pPc' = "loop" /\ UNCHANGED <<messageQueue, curMsg>>
       ELSE /\ curMsg' = PopFront(messageQueue).msg
            /\ messageQueue' = PopFront(messageQueue).rest
            /\ pPc' = "call"
    /\ UNCHANGED <<cfg, tmVars, assocVars, running, appended, sPc, senderOpen,
                   popped, cycles>>

\* trackManager_->processDwell(msg) is entered
BeginDwell ==
    /\ pPc = "call"
    /\ popped' = Append(popped, [msg |-> curMsg, running |-> running])
    /\ pPc' = "dwell"
    /\ UNCHANGED <<cfg, tmVars, assocVars, messageQueue, running, appended, sPc,
                   curMsg, senderOpen, cycles>>

\* processDwell is in progress: it was entered and has not returned
InDwell == pPc = "dwell" /\ (pc # "idle" \/ dwellCount < Len(popped))

PipePredict == InDwell /\ Predict
PipeAssociate == InDwell /\ Associate
PipeMaintainTracks == InDwell /\ MaintainTracks
PipeDeleteTracks == InDwell /\ DeleteTracks
PipeClassifyTracks == InDwell /\ ClassifyTracks

\* TrackManager::getTrackUpdates (the fields of the update the sender reads)
getTrackUpdates(ts) ==
    [i \in 1..Len(ts) |-> [trackId |-> ts[i].id, status |-> ts[i].status]]

\* TrackSender::sendTrackUpdates: what goes on the wire, if anything
sendTrackUpdates(c, updates) ==
    LET toSend == SelectSeq(updates,
                     LAMBDA u : ~(~c.sendDeletedTracks /\ u.status = "Deleted"))
    IN IF updates = <<>> \/ toSend = <<>>
       THEN [sent |-> FALSE, table |-> <<>>]
       ELSE [sent |-> TRUE, table |-> toSend]

\* the ids marked Deleted since the last completed cycle
DeletedThisCycle ==
    deletedIds \ UNION {cycles[k].deleted : k \in 1..Len(cycles)}

\* after processDwell: getTrackUpdates, the send unless the table is empty,
\* ++cycleCount_
SendUpdates ==
    /\ pPc = "dwell"
    /\ ~InDwell
    /\ LET updates == getTrackUpdates(tracks)
           handed == updates # <<>>
           wire == IF handed THEN sendTrackUpdates(cfg, updates)
                   ELSE [sent |-> FALSE, table |-> <<>>]
       IN cycles' = Append(cycles,
              [msg |-> curMsg, updates |-> updates, handed |-> handed,
               sent |-> wire.sent, table |-> wire.table,
               senderOpen |-> senderOpen, deleted |-> DeletedThisCycle])
    /\ pPc' = "loop"
    /\ UNCHANGED <<cfg, tmVars, assocVars, messageQueue, running, appended, sPc,
                   curMsg, senderOpen, popped>>

\* stop(): running_.store(false); queueCV_.notify_all()
StopStore ==
    /\ sPc = "run"
    /\ running' = FALSE
    /\ sPc' = "stopReceiver"
    /\ UNCHANGED <<cfg, tmVars, assocVars, messageQueue, appended, pPc, curMsg,
                   senderOpen, popped, cycles>>

\* receiver_->stop(): the receiver thread is joined
StopReceiver ==
    /\ sPc = "stopReceiver"
    /\ sPc' = "join"
    /\ UNCHANGED <<cfg, tmVars, assocVars, messageQueue, running, appended, pPc,
                   curMsg, senderOpen, popped, cycles>>

\* a join that does not wait
StopJoinNoWait ==
    /\ sPc = "join"
    /\ sPc' = "close"
    /\ UNCHANGED <<cfg, tmVars, assocVars, messageQueue, running, appended, pPc,
                   curMsg, senderOpen, popped, cycles>>

\* processingThread_.join() returns once processingLoop has returned
StopJoin ==
    /\ sPc = "join"
    /\ pPc = "exit"
    /\ sPc' = "close"
    /\ UNCHANGED <<cfg, tmVars, assocVars, messageQueue, running, appended, pPc,
                   curMsg, senderOpen, popped, cycles>>

\* sender_->close() and the return of stop()
StopClose ==
    /\ sPc = "close"
    /\ senderOpen' = FALSE
    /\ sPc' = "stopped"
    /\ UNCHANGED <<cfg, tmVars, assocVars, messageQueue, running, appended, pPc,
                   curMsg, popped, cycles>>

ProcessingThread ==
    \/ LoopCheck \/ WaitAndPop \/ BeginDwell
    \/ PipePredict \/ PipeAssociate \/ PipeMaintainTracks
    \/ PipeDeleteTracks \/ PipeClassifyTracks
    \/ SendUpdates

NextPipe ==
    \/ onDetectionReceived
    \/ LoopCheck \/ WaitAndPop \/ BeginDwell
    \/ PipePredict \/ PipeAssociate \/ PipeMaintainTracks
    \/ PipeDeleteTracks \/ PipeClassifyTracks
    \/ SendUpdates
    \/ StopStore \/ StopReceiver \/ StopJoin \/ StopClose

SpecPipe == InitPipe /\ [][NextPipe]_vars

\* the pipeline while stop() is not called, the processing thread being
\* scheduled fairly
NextPipeRun == onDetectionReceived \/ ProcessingThread

SpecPipeRun == InitPipe /\ [][NextPipeRun]_vars /\ WF_vars(ProcessingThread)

(***************************************************************************)
(* The state the manager and the pipeline keep while a single function is  *)
(* studied on bounded inputs.                                              *)
(***************************************************************************)
ManagerIdle ==
    /\ tracks = <<>>
    /\ candidates = <<>>
    /\ nextId = 1
    /\ dwellCount = 0
    /\ pc = "off"
    /\ assoc = NoAssoc
    /\ startTracks = <<>>
    /\ deletedIds = {}
    /\ issuedIds = <<>>

PipelineIdle ==
    /\ messageQueue = <<>>
    /\ running = FALSE
    /\ appended = 0
    /\ pPc = "none"
    /\ sPc = "none"
    /\ curMsg = 0
    /\ senderOpen = FALSE
    /\ popped = <<>>
    /\ cycles = <<>>

(***************************************************************************)
(* The prediction interval of processDwell.  Timestamps are unsigned and   *)
(* TsMod stands for 2^64; one unit of time is a third of ten seconds, so   *)
(* that TenSeconds is the 10.0 of the clamp.                               *)
(***************************************************************************)
TenSeconds == 3

\* ts - lastDwellTime_ on Timestamp (uint64_t)
SubTimestamp(a, b) == (a - b + TsMod) % TsMod

\* the clamp without its upper limit
predictionIntervalNoUpper(ts, lastDwellTime, cyclePeriod) ==
    LET dt == IF lastDwellTime > 0 THEN SubTimestamp(ts, lastDwellTime) ELSE cyclePeriod
    IN IF dt <= 0 THEN cyclePeriod ELSE dt

\* dt as computed before predict(dt)
predictionInterval(ts, lastDwellTime, cyclePeriod) ==
    LET dt == IF lastDwellTime > 0 THEN SubTimestamp(ts, lastDwellTime) ELSE cyclePeriod
    IN IF dt <= 0 \/ dt > TenSeconds THEN cyclePeriod ELSE dt

InitDt ==
    /\ cfg = BaseConfig
    /\ aIn \in [lastDwellTime : {0}, cyclePeriod : 1..TenSeconds]
    /\ aOut = [ts |-> 0, last |-> 0, dt |-> 0]
    /\ aPc = "dt"
    /\ ManagerIdle
    /\ PipelineIdle

\* one dwell with timestamp ts: dt is computed, then lastDwellTime_ = ts
DwellTimestamp ==
    /\ aPc = "dt"
    /\ \E ts \in 1..(TsMod - 1) :
          /\ aOut' = [ts |-> ts, last |-> aIn.lastDwellTime,
                      dt |-> predictionInterval(ts, aIn.lastDwellTime, aIn.cyclePeriod)]
          /\ aIn' = [aIn EXCEPT !.lastDwellTime = ts]
    /\ UNCHANGED <<cfg, aPc, tmVars, pipeVars>>

NextDt == DwellTimestamp

SpecDt == InitDt /\ [][NextDt]_vars

(***************************************************************************)
(* The initiator's gate and initial velocity as functions of the wall      *)
(* clock.  associate() stamps every tentative detection with nowMicros();  *)
(* processCandidates gates a cluster against the last detection of a       *)
(* candidate with dt taken between those stamps, and the velocity of a new *)
(* track divides by the stamps of its last two detections.  Ranges are in  *)
(* metres, clock gaps in tenths of a second; the two clusters share their  *)
(* azimuth and elevation.                                                  *)
(***************************************************************************)
VelocityGatePerTick == 10
GateMargin == 100
ClockRanges == {0, 50, 150, 250}
ClockGaps == {1, 5, 10}

Abs(x) == IF x < 0 THEN -x ELSE x

\* dr < velocityGate * dt + 100.0
timedGate(dr, gap) == dr < VelocityGatePerTick * gap + GateMargin

\* initStateWithVelocity, radial component (metres per second)
initStateWithVelocity(r0, r1, gap) ==
    IF gap > 0 THEN ((r1 - r0) * 10) \div gap ELSE 0

\* two consecutive dwells, each with one unmatched cluster (at r0, then at
\* r1), processed gap tenths of a second apart: what the initiator holds
\* after the second
TwoDwellInitiation(c, r0, r1, gap) ==
    LET first == [hits |-> 1, total |-> 1]
        ext == [hits |-> first.hits + 1, total |-> first.total + 1]
    IN IF timedGate(Abs(r1 - r0), gap)
       THEN IF MOfN(c, ext)
            THEN [candidates |-> 0, tracks |-> 1,
                  velocity |-> initStateWithVelocity(r0, r1, gap)]
            ELSE [candidates |-> 1, tracks |-> 0, velocity |-> 0]
       ELSE [candidates |-> 2, tracks |-> 0, velocity |-> 0]

InitClock ==
    /\ cfg = BaseConfig
    /\ aIn \in [r0 : ClockRanges, r1 : ClockRanges, gapA : ClockGaps, gapB : ClockGaps]
    /\ aOut = [runA |-> <<>>, runB |-> <<>>]
    /\ aPc = "clock"
    /\ ManagerIdle
    /\ PipelineIdle

\* the same two messages fed to two runs that process them at different
\* instants
RunTwice ==
    /\ aPc = "clock"
    /\ aOut' = [runA |-> TwoDwellInitiation(cfg, aIn.r0, aIn.r1, aIn.gapA),
                runB |-> TwoDwellInitiation(cfg, aIn.r0, aIn.r1, aIn.gapB)]
    /\ aPc' = "clock-done"
    /\ UNCHANGED <<cfg, aIn, tmVars, pipeVars>>

NextClock == RunTwice

SpecClock == InitClock /\ [][NextClock]_vars

(***************************************************************************)
(* The life of a TrackerPipeline object: construction, start() with its    *)
(* outcomes, stop() called by start() itself, by the owner or by the       *)
(* destructor.  sPc is the owner's position, aOut the bookkeeping of the   *)
(* object: who called the stop() in progress, how many stop() calls the    *)
(* owner completed, how often processingThread_.join() was called, whether *)
(* processingThread_ is joinable and whether the receiver thread runs.     *)
(***************************************************************************)
NewLife == [caller |-> "none", stops |-> 0, joins |-> 0, stopRuns |-> 0,
            joinable |-> FALSE, receiving |-> FALSE]

\* UdpSocket::setDestination, the only call whose result TrackSender::init
\* tests, returns true on every path
setDestination == TRUE

TrackSenderInit == setDestination

\* the object as its constructor leaves it: no receiver, manager or sender
InitLife ==
    /\ cfg = BaseConfig
    /\ aIn = NoInput
    /\ aOut = NewLife
    /\ aPc = "life"
    /\ tracks = <<>>
    /\ candidates = <<>>
    /\ nextId = 1
    /\ dwellCount = 0
    /\ pc = "idle"
    /\ assoc = NoAssoc
    /\ startTracks = <<>>
    /\ deletedIds = {}
    /\ issuedIds = <<>>
    /\ messageQueue = <<>>
    /\ running = FALSE
    /\ appended = 0
    /\ pPc = "none"
    /\ sPc = "constructed"
    /\ curMsg = 0
    /\ senderOpen = FALSE
    /\ popped = <<>>
    /\ cycles = <<>>

\* start() up to the start of the processing thread: the members are made
\* (the sender's socket is opened by its constructor), the sender is
\* initialised, running_ is set and the thread started
Start ==
    /\ sPc = "constructed"
    /\ senderOpen' = TRUE
    /\ IF ~TrackSenderInit
       THEN sPc' = "failed" /\ UNCHANGED <<running, pPc, aOut>>
       ELSE /\ running' = TRUE
            /\ pPc' = "loop"
            /\ aOut' = [aOut EXCEPT !.joinable = TRUE]
            /\ sPc' = "startReceiver"
    /\ UNCHANGED <<cfg, tmVars, aIn, aPc, messageQueue, appended, curMsg,
                   popped, cycles>>

\* receiver_->start(...): the bind succeeds and the receiver thread runs, or
\* it fails and start() calls stop() before it returns false
StartReceiver ==
    /\ sPc = "startReceiver"
    /\ \E ok \in BOOLEAN :
          IF ok
          THEN sPc' = "run" /\ aOut' = [aOut EXCEPT !.receiving = TRUE]
          ELSE sPc' = "stopStore" /\ aOut' = [aOut EXCEPT !.caller = "start"]
    /\ UNCHANGED <<cfg, tmVars, aIn, aPc, messageQueue, running, appended, pPc,
                   curMsg, senderOpen, popped, cycles>>

\* the receiver thread delivers a message while it runs
LifeReceive ==
    /\ aOut.receiving
    /\ appended < MaxMsgs
    /\ appended' = appended + 1
    /\ messageQueue' = Append(messageQueue, appended + 1)
    /\ UNCHANGED <<cfg, tmVars, assocVars, running, pPc, sPc, curMsg, senderOpen,
                   popped, cycles>>

\* the owner calls stop(): before start(), after it, or again
CallStop ==
    /\ sPc \in {"constructed", "run", "failed", "stopped"}
    /\ aOut.stops < 2
    /\ sPc' = "stopStore"
    /\ aOut' = [aOut EXCEPT !.caller = "stop"]
    /\ UNCHANGED <<cfg, tmVars, aIn, aPc, messageQueue, running, appended, pPc,
                   curMsg, senderOpen, popped, cycles>>

\* a destructor that does not call stop()
DestructorNoStop ==
    /\ sPc \in {"constructed", "run", "failed", "stopped"}
    /\ sPc' = "destroyed"
    /\ UNCHANGED <<cfg, tmVars, assocVars, messageQueue, running, appended, pPc,
                   curMsg, senderOpen, popped, cycles>>

\* ~TrackerPipeline(): stop()
Destructor ==
    /\ sPc \in {"constructed", "run", "failed", "stopped"}
    /\ sPc' = "stopStore"
    /\ aOut' = [aOut EXCEPT !.caller = "dtor"]
    /\ UNCHANGED <<cfg, tmVars, aIn, aPc, messageQueue, running, appended, pPc,
                   curMsg, senderOpen, popped, cycles>>

\* stop(): running_.store(false); queueCV_.notify_all()
LifeStopStore ==
    /\ sPc = "stopStore"
    /\ running' = FALSE
    /\ sPc' = "stopReceiver"
    /\ UNCHANGED <<cfg, tmVars, assocVars, messageQueue, appended, pPc, curMsg,
                   senderOpen, popped, cycles>>

\* if (receiver_) receiver_->stop(): the receiver thread, if any, is joined
LifeStopReceiver ==
    /\ sPc = "stopReceiver"
    /\ aOut' = [aOut EXCEPT !.receiving = FALSE]
    /\ sPc' = "join"
    /\ UNCHANGED <<cfg, tmVars, aIn, aPc, messageQueue, running, appended, pPc,
                   curMsg, senderOpen, popped, cycles>>

\* if (processingThread_.joinable()) processingThread_.join(): the join
\* returns once processingLoop has returned
LifeStopJoin ==
    /\ sPc = "join"
    /\ IF aOut.joinable
       THEN /\ pPc = "exit"
            /\ aOut' = [aOut EXCEPT !.joinable = FALSE, !.joins = @ + 1]
       ELSE UNCHANGED aOut
    /\ sPc' = "close"
    /\ UNCHANGED <<cfg, tmVars, aIn, aPc, messageQueue, running, appended, pPc,
                   curMsg, senderOpen, popped, cycles>>

\* if (sender_) sender_->close(), and stop() returns to its caller: start()
\* returns false, the owner goes on, or the destructor ends
LifeStopClose ==
    /\ sPc = "close"
    /\ senderOpen' = FALSE
    /\ sPc' = CASE aOut.caller = "start" -> "failed"
                [] aOut.caller = "stop" -> "stopped"
                [] OTHER -> "destroyed"
    /\ aOut' = [aOut EXCEPT !.caller = "none",
                            !.stopRuns = Min2(@ + 1, 2),
                            !.stops = IF aOut.caller = "stop" THEN @ + 1 ELSE @]
    /\ UNCHANGED <<cfg, tmVars, aIn, aPc, messageQueue, running, appended, pPc,
                   curMsg, popped, cycles>>

NextLife ==
    \/ Start \/ StartReceiver \/ LifeReceive
    \/ LoopCheck \/ WaitAndPop \/ BeginDwell
    \/ PipePredict \/ PipeAssociate \/ PipeMaintainTracks
    \/ PipeDeleteTracks \/ PipeClassifyTracks
    \/ SendUpdates
    \/ CallStop \/ Destructor
    \/ LifeStopStore \/ LifeStopReceiver \/ LifeStopJoin \/ LifeStopClose

SpecLife == InitLife /\ [][NextLife]_vars

(***************************************************************************)
(* The IMM filter in one measurement dimension.  A mode probability is     *)
(* num[m] / den, a merged quantity a fraction [n, d]; a likelihood is a    *)
(* multiple of the value modelLikelihood returns for a singular innovation *)
(* covariance (LikFloor stands for 1e-30).  The mixing and the motion      *)
(* models of predict are abstracted to "each model gets some state and     *)
(* covariance of the grid"; the Kalman update, the likelihood floor, the   *)
(* mode-probability update and the merge are computed as in the source.    *)
(***************************************************************************)
NumModels == 5
Models == 1..NumModels
LikFloor == 1
LikVals == {0, LikFloor, 4}
XVals == {0, 4}
PVectors == {[m \in Models |-> 0], [m \in Models |-> 2], <<2, 0, 2, 0, 2>>}
MeasNoise == {0, 2}

RECURSIVE SumOver(_, _)
SumOver(f, n) == IF n = 0 THEN 0 ELSE f[n] + SumOver(f, n - 1)

\* transition matrices (integer weights, every row with the same sum)
TransitionMatrices ==
    { [i \in Models |-> [j \in Models |-> IF i = j THEN 6 ELSE 1]],
      [i \in Models |-> [j \in Models |-> 1]],
      [i \in Models |-> [j \in Models |-> IF i = j THEN 1 ELSE 0]] }

RowSum(T) == SumOver(T[1], NumModels)

\* the default initialModeProbabilities, and a filter sure of its first model
InitialModeProbabilities ==
    { [num |-> <<8, 3, 3, 3, 3>>, den |-> 20],
      [num |-> <<1, 0, 0, 0, 0>>, den |-> 1] }

\* the likelihoods the measurement gives the models whose innovation
\* covariance is regular
LikVectors ==
    { <<a, b, c, c, c>> : a \in LikVals, b \in LikVals, c \in LikVals }

\* IMMFilter::mergeEstimates
mergeEstimates(s) ==
    LET mn == SumOver([m \in Models |-> s.num[m] * s.x[m]], NumModels)
        cn == SumOver([m \in Models |->
                  s.num[m] * (s.P[m] * s.den * s.den
                              + (s.x[m] * s.den - mn) * (s.x[m] * s.den - mn))],
                  NumModels)
    IN [s EXCEPT !.mergedState = [n |-> mn, d |-> s.den],
                 !.mergedCovariance = [n |-> cn, d |-> s.den * s.den * s.den]]

\* the IMMState of a new track: every model starts from the same estimate
NewIMMState(mu) ==
    mergeEstimates([num |-> mu.num, den |-> mu.den,
                    x |-> [m \in Models |-> 0], P |-> [m \in Models |-> 2],
                    mergedState |-> [n |-> 0, d |-> 1],
                    mergedCovariance |-> [n |-> 0, d |-> 1]])

\* IMMFilter::predict: interaction and modelPredictions give every model a
\* state and a covariance, modeProbabilities is not written, then the merge
IMMFilterPredict(s, xs, Ps) ==
    mergeEstimates([s EXCEPT !.x = xs, !.P = Ps])

\* the loop body of IMMFilter::update for one model: skipped if S cannot be
\* inverted, else x + K (z - x) and (I - K H) P with K = P / S
kalmanUpdate(x, P, z, R) ==
    LET S == P + R
    IN IF S = 0
       THEN [x |-> x, P |-> P, failed |-> TRUE]
       ELSE [x |-> x + (P * (z - x)) \div S, P |-> (P * R) \div S, failed |-> FALSE]

\* IMMFilter::modelLikelihood: the floor if det S is not positive
modelLikelihood(P, R, l) == IF P + R = 0 THEN LikFloor ELSE l

\* the predicted mode probabilities, in units of 1 / (RowSum(T) * den)
cBar(s, T) ==
    [j \in Models |-> SumOver([i \in Models |-> T[i][j] * s.num[i]], NumModels)]

RECURSIVE GCD(_, _)
GCD(a, b) == IF b = 0 THEN a ELSE GCD(b, a % b)

\* the probabilities p[j] / total, as a fraction in lowest terms
Normalised(s, p, total) ==
    LET g == GCD(total, GCD(p[1], GCD(p[2], GCD(p[3], GCD(p[4], p[5])))))
    IN IF g = 0
       THEN [s EXCEPT !.num = p, !.den = total]
       ELSE [s EXCEPT !.num = [j \in Models |-> p[j] \div g], !.den = total \div g]

\* the normalisation applied whatever the total
updateModeProbabilitiesNoReset(s, T, lik) ==
    LET p == [j \in Models |-> lik[j] * cBar(s, T)[j]]
    IN Normalised(s, p, SumOver(p, NumModels))

\* IMMFilter::updateModeProbabilities
updateModeProbabilities(s, T, lik) ==
    LET p == [j \in Models |-> lik[j] * cBar(s, T)[j]]
        totalLik == SumOver(p, NumModels)
    IN IF totalLik > LikFloor * RowSum(T) * s.den
       THEN Normalised(s, p, totalLik)
       ELSE [s EXCEPT !.num = [j \in Models |-> 1], !.den = NumModels]

\* IMMFilter::update
IMMFilterUpdate(s, T, z, R, ls) ==
    LET k == [m \in Models |-> kalmanUpdate(s.x[m], s.P[m], z, R)]
        s1 == [s EXCEPT !.x = [m \in Models |-> k[m].x],
                        !.P = [m \in Models |-> k[m].P]]
        lik == [m \in Models |-> modelLikelihood(s1.P[m], R, ls[m])]
    IN [imm |-> mergeEstimates(updateModeProbabilities(s1, T, lik)),
        failed |-> {m \in Models : k[m].failed},
        lik |-> lik]

InitImm ==
    /\ cfg = BaseConfig
    /\ aIn \in [T : TransitionMatrices]
    /\ \E mu \in InitialModeProbabilities :
          aOut = [imm |-> NewIMMState(mu), before |-> NewIMMState(mu),
                  op |-> "init", failed |-> {}, lik |-> <<>>]
    /\ aPc = "imm-predict"
    /\ ManagerIdle
    /\ PipelineIdle

ImmPredict ==
    /\ aPc = "imm-predict"
    /\ \E xs \in [Models -> XVals], Ps \in PVectors :
          aOut' = [imm |-> IMMFilterPredict(aOut.imm, xs, Ps), before |-> aOut.imm,
                   op |-> "predict", failed |-> {}, lik |-> <<>>]
    /\ aPc' = "imm-update"
    /\ UNCHANGED <<cfg, aIn, tmVars, pipeVars>>

ImmUpdate ==
    /\ aPc = "imm-update"
    /\ \E z \in XVals, R \in MeasNoise, ls \in LikVectors :
          \E u \in {IMMFilterUpdate(aOut.imm, aIn.T, z, R, ls)} :
             aOut' = [imm |-> u.imm, before |-> aOut.imm, op |-> "update",
                      failed |-> u.failed, lik |-> u.lik]
    /\ aPc' = "imm-done"
    /\ UNCHANGED <<cfg, aIn, tmVars, pipeVars>>

NextImm == ImmPredict \/ ImmUpdate

SpecImm == InitImm /\ [][NextImm]_vars

(***************************************************************************)
(* One track and two clusters under JPDA, in one measurement dimension:    *)
(* the association of TrackManager::associate followed by the update it    *)
(* applies to a matched track.  The five models of the track hold the same *)
(* state, so the merged position after the update is the position every    *)
(* model's Kalman update gives.                                            *)
(***************************************************************************)
ZVals == {-4, -2, 0, 2, 4, 6, 8}
PredictedCov == 2

JpdaConfigs == {c \in AssocConfigs : c.method = "jpda"}

\* mat::mahalanobisDistance of the innovation z - x under S = P + R, on the
\* grid of Dists (beyond the grid: its last point plus one)
mahalanobisDistance(z, x, S) ==
    IF S = 0 THEN 0 ELSE Min2(((z - x) * (z - x)) \div S, 5)

\* associate() for one active track: AssociationEngine::process, then for a
\* match IMMFilter::update with the matched cluster alone
associateOneTrack(c, x, P, R, zs) ==
    LET S == P + R
        dist == <<[j \in 1..Len(zs) |-> mahalanobisDistance(zs[j], x, S)]>>
        res == AssociationEngineProcess(c, 1, Len(zs), dist, <<S = 0>>)
    IN IF res.matched = <<>>
       THEN [matched |-> 0, position |-> x, dist |-> dist[1]]
       ELSE [matched |-> res.matched[1].clusterIndex,
             position |-> kalmanUpdate(x, P, zs[res.matched[1].clusterIndex], R).x,
             dist |-> dist[1]]

InitJpdaUpdate ==
    /\ cfg \in JpdaConfigs
    /\ aIn \in [x : XVals, P : {PredictedCov}, R : MeasNoise, z1 : ZVals, z2 : ZVals]
    /\ aOut = [matched |-> 0, position |-> 0, dist |-> <<>>]
    /\ aPc = "jpda-update"
    /\ ManagerIdle
    /\ PipelineIdle

JpdaAssociateAndUpdate ==
    /\ aPc = "jpda-update"
    /\ aOut' = associateOneTrack(cfg, aIn.x, aIn.P, aIn.R, <<aIn.z1, aIn.z2>>)
    /\ aPc' = "jpda-done"
    /\ UNCHANGED <<cfg, aIn, tmVars, pipeVars>>

NextJpdaUpdate == JpdaAssociateAndUpdate

SpecJpdaUpdate == InitJpdaUpdate /\ [][NextJpdaUpdate]_vars

(***************************************************************************)
(* classifyTracks on one track.  Speeds are whole metres per second around *)
(* the thresholds of the heuristic, mode probabilities are in twentieths.  *)
(***************************************************************************)
Classifications == {"Unknown", "DroneRotary", "DroneFixedWing", "Bird", "Clutter"}
Speeds == {0, 1, 2, 3, 5, 6, 15, 16, 24, 25, 26, 29, 30, 31, 79, 80, 81}
ModeProbabilities ==
    {mu \in [Models -> {0, 2, 3, 4, 6, 7, 8, 10}] : SumOver(mu, NumModels) = 20}

\* the heuristic with the fixed-wing rule tried before the rotary rule
classifyTrackFixedWingFirst(t) ==
    LET speed == t.speed
        cvProb == t.probs[1]
        caProb == t.probs[2] + t.probs[3]
        ctrProb == t.probs[4] + t.probs[5]
    IN IF speed < 2 THEN [t EXCEPT !.classification = "Clutter"]
       ELSE IF cvProb > 6 /\ speed > 15 /\ speed < 80
       THEN [t EXCEPT !.classification = "DroneFixedWing"]
       ELSE IF ctrProb > 8 /\ speed > 5 /\ speed < 30
       THEN [t EXCEPT !.classification = "DroneRotary"]
       ELSE IF speed > 5 /\ speed < 25 /\ caProb > 6
       THEN [t EXCEPT !.classification = "Bird"]
       ELSE [t EXCEPT !.classification = "Unknown"]

\* the body of the loop of classifyTracks for a track that is not Deleted
classifyTrack(t) ==
    LET speed == t.speed
        cvProb == t.probs[1]
        caProb == t.probs[2] + t.probs[3]
        ctrProb == t.probs[4] + t.probs[5]
    IN IF speed < 2 THEN [t EXCEPT !.classification = "Clutter"]
       ELSE IF ctrProb > 8 /\ speed > 5 /\ speed < 30
       THEN [t EXCEPT !.classification = "DroneRotary"]
       ELSE IF cvProb > 6 /\ speed > 15 /\ speed < 80
       THEN [t EXCEPT !.classification = "DroneFixedWing"]
       ELSE IF speed > 5 /\ speed < 25 /\ caProb > 6
       THEN [t EXCEPT !.classification = "Bird"]
       ELSE [t EXCEPT !.classification = "Unknown"]

InitClassify ==
    /\ cfg = BaseConfig
    /\ aIn \in [speed : Speeds, probs : ModeProbabilities, classification : Classifications]
    /\ aOut = [speed |-> 0, probs |-> <<>>, classification |-> "Unknown"]
    /\ aPc = "classify"
    /\ ManagerIdle
    /\ PipelineIdle

ClassifyOne ==
    /\ aPc = "classify"
    /\ aOut' = classifyTrack(aIn)
    /\ aPc' = "classified"
    /\ UNCHANGED <<cfg, aIn, tmVars, pipeVars>>

NextClassify == ClassifyOne

SpecClassify == InitClassify /\ [][NextClassify]_vars

(***************************************************************************)
(* The preprocessor.  A detection arrives as the bytes of the datagram     *)
(* (deserialize copies them into the doubles), so a field holds any value  *)
(* of a double: a number, here a point of a small grid around the          *)
(* configured bounds, or a NaN, with which every comparison is false.      *)
(***************************************************************************)
NaN == -1000
FieldNames == {"range", "azimuth", "elevation", "snr", "rcs", "strength"}
FieldMin == 1
FieldMax == 3
FieldVals == {FieldMin - 1, FieldMin, FieldMax, FieldMax + 1, NaN}

\* operator< and operator> of double
FLess(a, b) == a # NaN /\ b # NaN /\ a < b
FGreater(a, b) == a # NaN /\ b # NaN /\ a > b

\* a detection inside every bound, and the detections that differ from it in
\* one field
NominalDetection == [f \in FieldNames |-> FieldMin + 1]
Detections ==
    {NominalDetection} \cup
    {[NominalDetection EXCEPT ![f] = v] : f \in FieldNames, v \in FieldVals}

Batches == UNION {[1..k -> Detections] : k \in 0..MaxBatch}

\* Preprocessor::isValid
isValid(d) ==
    \A f \in FieldNames : ~(FLess(d[f], FieldMin) \/ FGreater(d[f], FieldMax))

\* Preprocessor::process: the filtered batch and the new rejected_
PreprocessorProcess(raw, rejected) ==
    LET filtered == SelectSeq(raw, isValid)
        rejectedInThisBatch == Len(raw) - Len(filtered)
    IN [filtered |-> filtered, rejected |-> rejected + rejectedInThisBatch]

InitPreprocess ==
    /\ cfg = BaseConfig
    /\ aIn = [raw |-> <<>>, calls |-> 0, rejectedBefore |-> 0]
    /\ aOut = [filtered |-> <<>>, rejected |-> 0]
    /\ aPc = "preprocess"
    /\ ManagerIdle
    /\ PipelineIdle

\* one call of process; aIn.rejectedBefore is rejected_ as the call found it
ProcessBatch ==
    /\ aPc = "preprocess"
    /\ aIn.calls < MaxCalls
    /\ \E raw \in Batches :
          /\ aOut' = PreprocessorProcess(raw, aOut.rejected)
          /\ aIn' = [raw |-> raw, calls |-> aIn.calls + 1,
                     rejectedBefore |-> aOut.rejected]
    /\ UNCHANGED <<cfg, aPc, tmVars, pipeVars>>

NextPreprocess == ProcessBatch

SpecPreprocess == InitPreprocess /\ [][NextPreprocess]_vars

(***************************************************************************)
(* The clusterers.  A detection is a point of a grid: range in units of    *)
(* epsilonRange (= the range gate), azimuth in units of epsilonAzimuth     *)
(* (= the azimuth gate); two azimuths of the grid are two lanes out of     *)
(* each other's reach.  Detection indices are 1-based, cluster labels and  *)
(* ids 0-based as in the source.                                           *)
(***************************************************************************)
UNDEFINED == -1
NOISE == -2
DetPoints == [range : 0..3, azimuth : {0, 2}]
DetLists == UNION {[1..k -> DetPoints] : k \in 0..MaxDets}
MinPointsVals == {2, 3}

Indices(dets) == [i \in 1..Len(dets) |-> i]

\* DBScanClusterer::distance(a, b) <= 1.0
withinEpsilon(a, b) ==
    (a.range - b.range) * (a.range - b.range)
       + (a.azimuth - b.azimuth) * (a.azimuth - b.azimuth) <= 1

\* DBScanClusterer::rangeQuery
rangeQuery(dets, idx) ==
    SelectSeq(Indices(dets), LAMBDA i : withinEpsilon(dets[idx], dets[i]))

\* the seed loop without the growth of the seed set
RECURSIVE expandClusterNoGrowth(_, _, _, _, _, _)
expandClusterNoGrowth(dets, minPoints, labels, seedSet, si, cur) ==
    IF si > Len(seedSet) THEN labels
    ELSE LET q == seedSet[si]
             l1 == IF labels[q] = NOISE THEN [labels EXCEPT ![q] = cur] ELSE labels
         IN IF l1[q] # UNDEFINED
            THEN expandClusterNoGrowth(dets, minPoints, l1, seedSet, si + 1, cur)
            ELSE expandClusterNoGrowth(dets, minPoints, [l1 EXCEPT ![q] = cur],
                                       seedSet, si + 1, cur)

\* the loop over seedSet of DBScanClusterer::cluster
RECURSIVE expandCluster(_, _, _, _, _, _)
expandCluster(dets, minPoints, labels, seedSet, si, cur) ==
    IF si > Len(seedSet) THEN labels
    ELSE LET q == seedSet[si]
             l1 == IF labels[q] = NOISE THEN [labels EXCEPT ![q] = cur] ELSE labels
         IN IF l1[q] # UNDEFINED
            THEN expandCluster(dets, minPoints, l1, seedSet, si + 1, cur)
            ELSE LET l2 == [l1 EXCEPT ![q] = cur]
                     qNeighbors == rangeQuery(dets, q)
                     grown == IF Len(qNeighbors) >= minPoints
                              THEN seedSet \o SelectSeq(qNeighbors,
                                       LAMBDA nn : l2[nn] = UNDEFINED \/ l2[nn] = NOISE)
                              ELSE seedSet
                 IN expandCluster(dets, minPoints, l2, grown, si + 1, cur)

\* the loop over i of DBScanClusterer::cluster
RECURSIVE labelDetections(_, _, _, _, _)
labelDetections(dets, minPoints, labels, i, clusterLabel) ==
    IF i > Len(dets) THEN [labels |-> labels, clusterLabel |-> clusterLabel]
    ELSE IF labels[i] # UNDEFINED
    THEN labelDetections(dets, minPoints, labels, i + 1, clusterLabel)
    ELSE LET neighbors == rangeQuery(dets, i)
         IN IF Len(neighbors) < minPoints
            THEN labelDetections(dets, minPoints, [labels EXCEPT ![i] = NOISE],
                                 i + 1, clusterLabel)
            ELSE labelDetections(dets, minPoints,
                    expandCluster(dets, minPoints, [labels EXCEPT ![i] = clusterLabel],
                                  neighbors, 1, clusterLabel),
                    i + 1, clusterLabel + 1)

\* buildCluster: the fields that say which detections the cluster holds
buildCluster(indices, id) ==
    [clusterId |-> id, numDetections |-> Len(indices), detectionIndices |-> indices]

\* cluster() without the clusters of the noise points
DBScanClusterDropNoise(dets, minPoints) ==
    IF dets = <<>> THEN <<>>
    ELSE LET r == labelDetections(dets, minPoints,
                     [i \in 1..Len(dets) |-> UNDEFINED], 1, 0)
             members(l) == SelectSeq(Indices(dets), LAMBDA i : r.labels[i] = l)
             used == SelectSeq([k \in 1..r.clusterLabel |-> k - 1],
                               LAMBDA l : members(l) # <<>>)
         IN [k \in 1..Len(used) |-> buildCluster(members(used[k]), used[k])]

\* DBScanClusterer::cluster: the labelled detections by label, then one
\* cluster for every noise point
DBScanCluster(dets, minPoints) ==
    IF dets = <<>> THEN <<>>
    ELSE LET r == labelDetections(dets, minPoints,
                     [i \in 1..Len(dets) |-> UNDEFINED], 1, 0)
             members(l) == SelectSeq(Indices(dets), LAMBDA i : r.labels[i] = l)
             used == SelectSeq([k \in 1..r.clusterLabel |-> k - 1],
                               LAMBDA l : members(l) # <<>>)
             noise == SelectSeq(Indices(dets), LAMBDA i : r.labels[i] = NOISE)
         IN [k \in 1..Len(used) |-> buildCluster(members(used[k]), used[k])]
            \o [k \in 1..Len(noise) |-> buildCluster(<<noise[k]>>, r.clusterLabel + k - 1)]

\* RangeClusterer::inGate (the gates are one unit of the grid)
inGate(a, b) ==
    Abs(a.range - b.range) <= 1 /\ Abs(a.azimuth - b.azimuth) <= 1

\* what std::sort may leave in sortedIdx: any order of the indices in which
\* no range is less than the one before it
SortedOrders(dets) ==
    {p \in Permutations(1..Len(dets)) :
        \A k \in 1..(Len(dets) - 1) : ~(dets[p[k + 1]].range < dets[p[k]].range)}

\* the inner loop of RangeClusterer::cluster, from position sj of sortedIdx
RECURSIVE gatherGroup(_, _, _, _, _, _)
gatherGroup(dets, sortedIdx, assigned, i, sj, group) ==
    IF sj > Len(dets) THEN [group |-> group, assigned |-> assigned]
    ELSE LET j == sortedIdx[sj]
         IN IF j \in assigned
            THEN gatherGroup(dets, sortedIdx, assigned, i, sj + 1, group)
            ELSE IF dets[j].range - dets[i].range > 1
            THEN [group |-> group, assigned |-> assigned]
            ELSE IF inGate(dets[i], dets[j])
            THEN gatherGroup(dets, sortedIdx, assigned \cup {j}, i, sj + 1,
                             Append(group, j))
            ELSE gatherGroup(dets, sortedIdx, assigned, i, sj + 1, group)

\* the outer loop of RangeClusterer::cluster
RECURSIVE rangeGroups(_, _, _, _, _)
rangeGroups(dets, sortedIdx, assigned, si, result) ==
    IF si > Len(dets) THEN result
    ELSE LET i == sortedIdx[si]
         IN IF i \in assigned
            THEN rangeGroups(dets, sortedIdx, assigned, si + 1, result)
            ELSE LET g == gatherGroup(dets, sortedIdx, assigned \cup {i}, i, si + 1, <<i>>)
                 IN rangeGroups(dets, sortedIdx, g.assigned, si + 1,
                                Append(result, buildCluster(g.group, Len(result))))

\* RangeClusterer::cluster
RangeCluster(dets, sortedIdx) ==
    IF dets = <<>> THEN <<>> ELSE rangeGroups(dets, sortedIdx, {}, 1, <<>>)

InitCluster ==
    /\ cfg = BaseConfig
    /\ \E dets \in DetLists :
          \/ \E mp \in MinPointsVals :
                aIn = [method |-> "dbscan", dets |-> dets, minPoints |-> mp,
                       sortedIdx |-> <<>>]
          \/ \E p \in SortedOrders(dets) :
                aIn = [method |-> "range_based", dets |-> dets, minPoints |-> 0,
                       sortedIdx |-> p]
    /\ aOut = <<>>
    /\ aPc = "cluster"
    /\ ManagerIdle
    /\ PipelineIdle

ClusterDetections ==
    /\ aPc = "cluster"
    /\ aOut' = IF aIn.method = "dbscan"
               THEN DBScanCluster(aIn.dets, aIn.minPoints)
               ELSE RangeCluster(aIn.dets, aIn.sortedIdx)
    /\ aPc' = "clustered"
    /\ UNCHANGED <<cfg, aIn, tmVars, pipeVars>>

NextCluster == ClusterDetections

SpecCluster == InitCluster /\ [][NextCluster]_vars

(***************************************************************************)
(* Message framing (MessageSerializer::deserialize, deserializeTrackTable). *)
(* An unsigned 32-bit count is the pair [hi, lo] of its 16-bit halves; a    *)
(* byte count is an int of 32 bits.                                         *)
(***************************************************************************)
Half == 65536
MSG_ID_SP_DETECTION == 1
MSG_ID_TRACK_TABLE == 3
SizeofDetection == 64
SizeofTrackUpdateMessage == 128

CountHalves == {0, 1, 2, 3, 511, 512, 1024, 32768, 65535}
Counts == [hi : CountHalves, lo : CountHalves]
\* the number of bytes received (UdpSocket::receive), within the receive buffer
Lens == {0, 15, 16, 19, 20, 83, 84, 144, 148, 272, 1500, 65536}

\* static_cast<int>(count * size): the low 32 bits of the product, signed
expectedBytes(count, size) ==
    LET low == count.lo * size
        rlo == low % Half
        rhi == (count.hi * size + low \div Half) % Half
    IN IF rhi >= Half \div 2 THEN (rhi - Half) * Half + rlo ELSE rhi * Half + rlo

\* count <= k for an int k >= 0
CountAtMost(count, k) ==
    /\ count.hi < Half \div 2
    /\ count.hi * Half + count.lo <= k

\* resize(count) and the loop of count memcpy calls, size bytes each, from a
\* buffer with `remaining` bytes left: reading beyond the buffer is undefined
\* (the call may return true or fault), the allocation may throw
copyRecords(remaining, count, size) ==
    IF CountAtMost(count, remaining \div size)
    THEN {[ret |-> "true", beyond |-> FALSE]}
    ELSE {[ret |-> "true", beyond |-> TRUE],
          [ret |-> "fault", beyond |-> TRUE],
          [ret |-> "throw", beyond |-> FALSE]}

deserialize(len, numDetections) ==
    IF len < 20 THEN {[ret |-> "false", beyond |-> FALSE]}
    ELSE LET remaining == len - 20
             expected == expectedBytes(numDetections, SizeofDetection)
         IN IF remaining < expected THEN {[ret |-> "false", beyond |-> FALSE]}
            ELSE copyRecords(remaining, numDetections, SizeofDetection)

deserializeTrackTable(len, msgId, numTracks) ==
    IF len < 16 THEN {[ret |-> "false", beyond |-> FALSE]}
    ELSE IF msgId # MSG_ID_TRACK_TABLE THEN {[ret |-> "false", beyond |-> FALSE]}
    ELSE LET remaining == len - 16
             expected == expectedBytes(numTracks, SizeofTrackUpdateMessage)
         IN IF remaining < expected THEN {[ret |-> "false", beyond |-> FALSE]}
            ELSE copyRecords(remaining, numTracks, SizeofTrackUpdateMessage)

InitDeserialize ==
    /\ cfg = BaseConfig
    /\ \E fn \in {"deserialize", "deserializeTrackTable"}, len \in Lens,
          msgId \in {MSG_ID_SP_DETECTION, MSG_ID_TRACK_TABLE}, count \in Counts :
          aIn = [fn |-> fn, len |-> len, msgId |-> msgId, count |-> count]
    /\ aOut = <<>>
    /\ aPc = "received"
    /\ ManagerIdle
    /\ PipelineIdle

Deserialize ==
    /\ aPc = "received"
    /\ aIn.fn = "deserialize"
    /\ aOut' \in deserialize(aIn.len, aIn.count)
    /\ aPc' = "returned"
    /\ UNCHANGED <<cfg, aIn, tmVars, pipeVars>>

DeserializeTrackTable ==
    /\ aPc = "received"
    /\ aIn.fn = "deserializeTrackTable"
    /\ aOut' \in deserializeTrackTable(aIn.len, aIn.msgId, aIn.count)
    /\ aPc' = "returned"
    /\ UNCHANGED <<cfg, aIn, tmVars, pipeVars>>

NextDeserialize == Deserialize \/ DeserializeTrackTable

SpecDeserialize == InitDeserialize /\ [][NextDeserialize]_vars

(***************************************************************************)
(* stop() against the two threads, step by step.  pPc is the position of   *)
(* the processing thread ("wait": about to evaluate the predicate of       *)
(* wait_for under the mutex, "enterWait": the predicate was false and the  *)
(* thread is about to block, "blocked": waiting on queueCV_ with the mutex *)
(* released, "check": wait_for has returned), aPc the position of the      *)
(* receiver thread, aIn the receiver's own running_ flag, sPc the position *)
(* of the thread inside stop(), aOut the record of a notify_all that found *)
(* the processing thread not yet blocked (history).                        *)
(***************************************************************************)
\* the messages the receiver thread delivers before and during stop()
MaxStopMsgs == 2

InitStop ==
    /\ cfg = BaseConfig
    /\ tracks = <<>>
    /\ candidates = <<>>
    /\ nextId = 1
    /\ dwellCount = 0
    /\ pc = "idle"
    /\ assoc = NoAssoc
    /\ startTracks = <<>>
    /\ deletedIds = {}
    /\ issuedIds = <<>>
    /\ aIn = [running |-> TRUE]
    /\ aOut = [missedWakeup |-> FALSE, inFlight |-> FALSE]
    /\ aPc = "receiveLoop"
    /\ messageQueue = <<>>
    /\ running = TRUE
    /\ appended = 0
    /\ pPc = "loop"
    /\ sPc = "run"
    /\ curMsg = 0
    /\ senderOpen = TRUE
    /\ popped = <<>>
    /\ cycles = <<>>

\* queueMutex_ is held by the processing thread
ProcessingHoldsMutex == pPc \in {"enterWait", "check"}

\* notify_one / notify_all: a thread blocked on queueCV_ wakes and evaluates
\* the predicate again; a thread that is not blocked is not affected
notify(p) == IF p = "blocked" THEN "wait" ELSE p

\* wait_for takes the mutex and evaluates the predicate
WaitPredicate ==
    /\ pPc = "wait"
    /\ pPc' = IF messageQueue # <<>> \/ ~running THEN "check" ELSE "enterWait"
    /\ UNCHANGED <<cfg, tmVars, assocVars, messageQueue, running, appended, sPc,
                   curMsg, senderOpen, popped, cycles>>

\* the wait releases the mutex and blocks
WaitBlock ==
    /\ pPc = "enterWait"
    /\ pPc' = "blocked"
    /\ UNCHANGED <<cfg, tmVars, assocVars, messageQueue, running, appended, sPc,
                   curMsg, senderOpen, popped, cycles>>

\* a wait that has no timeout
WaitForever ==
    /\ pPc = "blocked"
    /\ pPc' = "blocked"
    /\ UNCHANGED <<cfg, tmVars, assocVars, messageQueue, running, appended, sPc,
                   curMsg, senderOpen, popped, cycles>>

\* cyclePeriodMs has passed: wait_for returns whatever the predicate says
WaitTimeout ==
    /\ pPc = "blocked"
    /\ pPc' = "check"
    /\ UNCHANGED <<cfg, tmVars, assocVars, messageQueue, running, appended, sPc,
                   curMsg, senderOpen, popped, cycles>>

\* after wait_for: break, continue or pop one message
AfterWait ==
    /\ pPc = "check"
    /\ IF ~running
       THEN pPc' = "exit" /\ UNCHANGED <<messageQueue, curMsg>>
       ELSE IF messageQueue = <<>>
       THEN pPc' = "loop" /\ UNCHANGED <<messageQueue, curMsg>>
       ELSE /\ curMsg' = PopFront(messageQueue).msg
            /\ messageQueue' = PopFront(messageQueue).rest
            /\ pPc' = "call"
    /\ UNCHANGED <<cfg, tmVars, assocVars, running, appended, sPc, senderOpen,
                   popped, cycles>>

\* DetectionReceiver::receiveLoop: while (running_.load())
ReceiveLoopCheck ==
    /\ aPc = "receiveLoop"
    /\ aPc' = IF aIn.running THEN "receive" ELSE "receiveExit"
    /\ UNCHANGED <<cfg, tmVars, aIn, aOut, pipeVars>>

\* socket_.receive returns n <= 0 after the receive timeout, or the datagram
\* is not a detection message: continue
ReceiveNothing ==
    /\ aPc = "receive"
    /\ aPc' = "receiveLoop"
    /\ UNCHANGED <<cfg, tmVars, aIn, aOut, pipeVars>>

\* socket_.receive returns a detection message: the callback is called
ReceiveMessage ==
    /\ aPc = "receive"
    /\ appended < MaxStopMsgs
    /\ aPc' = "callback"
    /\ UNCHANGED <<cfg, tmVars, aIn, aOut, pipeVars>>

\* onDetectionReceived on the receiver thread: lock, push, unlock, notify_one
ReceiverCallback ==
    /\ aPc = "callback"
    /\ ~ProcessingHoldsMutex
    /\ appended' = appended + 1
    /\ messageQueue' = Append(messageQueue, appended + 1)
    /\ pPc' = notify(pPc)
    /\ aPc' = "receiveLoop"
    /\ UNCHANGED <<cfg, tmVars, aIn, aOut, running, sPc, curMsg, senderOpen,
                   popped, cycles>>

\* stop(): running_.store(false)
StopStoreRunning ==
    /\ sPc = "run"
    /\ running' = FALSE
    /\ sPc' = "notify"
    /\ aOut' = [aOut EXCEPT !.inFlight = pPc \in {"call", "dwell"}]
    /\ UNCHANGED <<cfg, tmVars, aIn, aPc, messageQueue, appended, pPc, curMsg,
                   senderOpen, popped, cycles>>

\* stop(): queueCV_.notify_all()
StopNotifyAll ==
    /\ sPc = "notify"
    /\ pPc' = notify(pPc)
    /\ aOut' = [aOut EXCEPT !.missedWakeup = (pPc = "enterWait")]
    /\ sPc' = "receiverStop"
    /\ UNCHANGED <<cfg, tmVars, aIn, aPc, messageQueue, running, appended, curMsg,
                   senderOpen, popped, cycles>>

\* DetectionReceiver::stop: running_.store(false)
ReceiverStopStore ==
    /\ sPc = "receiverStop"
    /\ aIn' = [aIn EXCEPT !.running = FALSE]
    /\ sPc' = "receiverJoin"
    /\ UNCHANGED <<cfg, tmVars, aOut, aPc, messageQueue, running, appended, pPc,
                   curMsg, senderOpen, popped, cycles>>

\* DetectionReceiver::stop: thread_.join() returns once receiveLoop has
\* returned; closeSocket
ReceiverJoin ==
    /\ sPc = "receiverJoin"
    /\ aPc = "receiveExit"
    /\ sPc' = "join"
    /\ UNCHANGED <<cfg, tmVars, assocVars, messageQueue, running, appended, pPc,
                   curMsg, senderOpen, popped, cycles>>

ProcessingSteps ==
    \/ LoopCheck \/ WaitPredicate \/ WaitBlock \/ WaitTimeout \/ AfterWait
    \/ BeginDwell
    \/ PipePredict \/ PipeAssociate \/ PipeMaintainTracks
    \/ PipeDeleteTracks \/ PipeClassifyTracks
    \/ SendUpdates

ReceiverSteps ==
    ReceiveLoopCheck \/ ReceiveNothing \/ ReceiveMessage \/ ReceiverCallback

\* the steps of stop() once it was called
StopSteps ==
    StopNotifyAll \/ ReceiverStopStore \/ ReceiverJoin \/ StopJoin \/ StopClose

NextStop ==
    \/ LoopCheck \/ WaitPredicate \/ WaitBlock \/ WaitTimeout \/ AfterWait
    \/ BeginDwell
    \/ PipePredict \/ PipeAssociate \/ PipeMaintainTracks
    \/ PipeDeleteTracks \/ PipeClassifyTracks
    \/ SendUpdates
    \/ ReceiveLoopCheck \/ ReceiveNothing \/ ReceiveMessage \/ ReceiverCallback
    \/ StopStoreRunning
    \/ StopNotifyAll \/ ReceiverStopStore \/ ReceiverJoin \/ StopJoin \/ StopClose

\* every thread that can take a step is scheduled eventually
SpecStop ==
    /\ InitStop
    /\ [][NextStop]_vars
    /\ WF_vars(ProcessingSteps)
    /\ WF_vars(ReceiverSteps)
    /\ WF_vars(StopSteps)

TypeOK ==
    /\ pc \in {"idle", "predicted", "associated", "maintained", "deleted", "off"}
    /\ \A i \in 1..Len(tracks) : tracks[i].status \in Statuses

(***************************************************************************)
(* Properties.                                                             *)
(***************************************************************************)
TrackById(ts, id) == ts[CHOOSE i \in 1..Len(ts) : ts[i].id = id]
TrackSet(ts) == {ts[i] : i \in 1..Len(ts)}

\* a status change from the record s to the record t of the same track
StatusChangeOK(c, s, t) ==
    \/ t.status = s.status
    \/ s.status = "Tentative" /\ t.status = "Confirmed" /\ t.hitCount >= c.confirmHits
    \/ s.status = "Confirmed" /\ t.status = "Coasting" /\ t.consecutiveMisses > 0
    \/ s.status = "Coasting" /\ t.status = "Confirmed" /\ t.consecutiveMisses = 0
    \/ s.status # "Deleted" /\ t.status = "Deleted"

\* C1: in every step of the manager a track that stays in the table keeps its
\* status or goes Tentative -> Confirmed (with hitCount >= confirmHits),
\* Confirmed -> Coasting (with consecutiveMisses > 0), Coasting -> Confirmed
\* (with consecutiveMisses = 0) or to Deleted; a track enters the table
\* Tentative; and the same holds from the start of a dwell to any point of it.
C1_StatusTransitions ==
    [][ /\ \A i \in 1..Len(tracks) : \A j \in 1..Len(tracks') :
              tracks[i].id = tracks'[j].id => StatusChangeOK(cfg, tracks[i], tracks'[j])
        /\ \A j \in 1..Len(tracks') :
              tracks'[j].id \notin Ids(tracks) => tracks'[j].status = "Tentative"
        /\ \A i \in 1..Len(startTracks') : \A j \in 1..Len(tracks') :
              startTracks'[i].id = tracks'[j].id
                  => StatusChangeOK(cfg, startTracks'[i], tracks'[j]) ]_vars

\* a track that began the dwell Coasting is Confirmed again after maintainTracks
C1_Witness ==
    /\ pc = "maintained"
    /\ \E s \in TrackSet(startTracks) : \E t \in TrackSet(tracks) :
          s.id = t.id /\ s.status = "Coasting" /\ t.status = "Confirmed"

\* the deletion rule of the specification, on a track as maintainTracks left it
DeletionRule(c, t) ==
    \/ t.consecutiveMisses >= c.maxCoastingDwells
    \/ t.quality < c.minQuality
    \/ t.range > c.maxRange

\* C2: after deleteTracks the tracks that left the table are exactly those
\* for which consecutiveMisses >= maxCoastingDwells or quality < minQuality or
\* range > maxRange held after the hit/miss recording and the quality update;
\* they are marked Deleted in that dwell, and every track of the start of the
\* dwell is either still in the table under its id or among them.
C2_DeletedIffRule ==
    pc = "deleted" =>
        /\ \A t \in TrackSet(tracks) : ~DeletionRule(cfg, t)
        /\ \A d \in assoc.deleted :
              /\ DeletionRule(cfg, d)
              /\ d.status = "Deleted"
              /\ d.id \in deletedIds
              /\ d.id \notin Ids(tracks)
        /\ \A s \in TrackSet(startTracks) :
              s.id \in Ids(tracks) \cup {d.id : d \in assoc.deleted}
        /\ \A k \in 1..Len(issuedIds) :
              issuedIds[k] \in Ids(tracks) \cup deletedIds

\* a dwell that deleted one track and kept another whose consecutive misses had
\* reached maintenance.deleteAfterMisses
C2_Witness ==
    /\ pc = "deleted"
    /\ assoc.deleted # {}
    /\ \E t \in TrackSet(tracks) : t.consecutiveMisses >= cfg.deleteAfterMisses

\* C3: every track of the table is in one of the four statuses, no track of
\* the table is Deleted once deleteTracks has run (classification and the
\* later dwells never see one), and no track of the table carries the id of a
\* track that was marked Deleted.
C3_DeletedIsSink ==
    /\ \A t \in TrackSet(tracks) : t.status \in Statuses
    /\ \A t \in TrackSet(tracks) : t.status # "Deleted"
    /\ \A t \in TrackSet(tracks) : t.id \notin deletedIds

\* a later dwell has predicted the table after some track was deleted
C3_Witness ==
    /\ pc = "predicted"
    /\ deletedIds # {}
    /\ tracks # <<>>

\* C4: the ids issued by the initiator start at 1 and each is greater than
\* all issued before it; the tracks of the table have pairwise different ids,
\* all of them issued ids, and none is the id of a deleted track.
C4_IdsUniqueMonotone ==
    /\ \A k \in 1..Len(issuedIds) : \A l \in 1..Len(issuedIds) :
          k < l => issuedIds[k] < issuedIds[l]
    /\ Len(issuedIds) > 0 => issuedIds[1] = 1
    /\ \A i \in 1..Len(tracks) : \A j \in 1..Len(tracks) :
          i # j => tracks[i].id # tracks[j].id
    /\ Ids(tracks) \subseteq SeqRange(issuedIds)
    /\ Ids(tracks) \cap deletedIds = {}
    /\ deletedIds \subseteq SeqRange(issuedIds)

\* a track was created after another one had been deleted
C4_Witness ==
    /\ Len(issuedIds) >= 2
    /\ \E t \in TrackSet(tracks) : \E d \in deletedIds : t.id > d

\* the book-keeping of one dwell, from the record s at its start to the record t
HitBookkeeping(c, s, t) ==
    /\ t.hitCount = s.hitCount + 1
    /\ t.consecutiveMisses = 0
    /\ t.quality = Min2(QOne, s.quality + c.qualityBoost)
    /\ t.missCount = s.missCount
    /\ t.age = s.age + 1

MissBookkeeping(c, s, t) ==
    /\ t.missCount = s.missCount + 1
    /\ t.consecutiveMisses = s.consecutiveMisses + 1
    /\ t.quality = (s.quality * c.qualityDecayRate) \div 100
    /\ t.hitCount = s.hitCount
    /\ t.age = s.age + 1

\* C5: when a dwell ends, every track that was in the table at its start and
\* is still there has the hit book-keeping if it was matched and the miss
\* book-keeping if it was not; and no step decreases hitCount, missCount or age.
C5_DwellBookkeeping ==
    [][ /\ (pc = "deleted" /\ pc' = "idle") =>
              \A s \in TrackSet(startTracks) : \A t \in TrackSet(tracks') :
                  s.id = t.id =>
                      IF s.id \in assoc.matchedIds
                      THEN HitBookkeeping(cfg, s, t)
                      ELSE MissBookkeeping(cfg, s, t) /\ s.id \in assoc.missedIds
        /\ \A i \in 1..Len(tracks) : \A j \in 1..Len(tracks') :
              tracks[i].id = tracks'[j].id =>
                  /\ tracks'[j].hitCount >= tracks[i].hitCount
                  /\ tracks'[j].missCount >= tracks[i].missCount
                  /\ tracks'[j].age >= tracks[i].age ]_vars

\* a dwell in which one surviving track was hit after earlier misses and
\* another surviving track was missed
C5_Witness ==
    /\ pc = "deleted"
    /\ \E s \in TrackSet(startTracks) :
          s.id \in Ids(tracks) /\ s.id \in assoc.matchedIds /\ s.consecutiveMisses > 0
    /\ \E s \in TrackSet(startTracks) :
          s.id \in Ids(tracks) /\ s.id \in assoc.missedIds

\* C6: a track that began the dwell Confirmed or Coasting and was missed,
\* whose quality is still >= minQuality and whose range is <= maxRange, has
\* hitCount unchanged and one more consecutive miss; it is in the table as
\* Coasting while consecutiveMisses < maxCoastingDwells and is marked Deleted
\* and pruned in the dwell where consecutiveMisses reaches maxCoastingDwells.
C6_CoastThenDelete ==
    pc = "deleted" =>
        \A s \in TrackSet(startTracks) :
            \A t \in TrackSet(tracks) \cup assoc.deleted :
                ( /\ s.id = t.id
                  /\ s.status \in {"Confirmed", "Coasting"}
                  /\ s.id \in assoc.missedIds
                  /\ t.quality >= cfg.minQuality
                  /\ t.range <= cfg.maxRange )
                =>
                ( /\ t.hitCount = s.hitCount
                  /\ t.consecutiveMisses = s.consecutiveMisses + 1
                  /\ t.consecutiveMisses <= cfg.maxCoastingDwells
                  /\ IF t.consecutiveMisses = cfg.maxCoastingDwells
                     THEN t \in assoc.deleted /\ t.status = "Deleted" /\ t.id \notin Ids(tracks)
                     ELSE t \in TrackSet(tracks) /\ t.status = "Coasting" )

\* a Coasting track was deleted in the dwell of its maxCoastingDwells-th miss,
\* its quality and range being acceptable
C6_Witness ==
    /\ pc = "deleted"
    /\ \E s \in TrackSet(startTracks) : \E d \in assoc.deleted :
          /\ s.id = d.id
          /\ s.status = "Coasting"
          /\ d.consecutiveMisses = cfg.maxCoastingDwells
          /\ d.quality >= cfg.minQuality
          /\ d.range <= cfg.maxRange

\* how often the index i occurs in the sequence of indices s
Occurrences(s, i) == Cardinality({k \in 1..Len(s) : s[k] = i})
MatchedTracks(out) == [k \in 1..Len(out.matched) |-> out.matched[k].trackIndex]
MatchedClusters(out) == [k \in 1..Len(out.matched) |-> out.matched[k].clusterIndex]

\* C7: in the output of AssociationEngine::process every input track index
\* occurs exactly once in matched and unmatchedTracks together, and
\* len(matched) + len(unmatchedTracks) = len(tracks_in).
C7_TracksPartitioned ==
    aPc = "done" =>
        /\ \A t \in 1..aIn.nT :
              Occurrences(MatchedTracks(aOut) \o aOut.unmatchedTracks, t) = 1
        /\ Len(aOut.matched) + Len(aOut.unmatchedTracks) = aIn.nT

\* two tracks and two clusters, one track matched and the other unmatched
C7_Witness ==
    /\ aPc = "done"
    /\ aIn.nT = 2
    /\ aIn.nC = 2
    /\ Len(aOut.matched) = 1
    /\ Len(aOut.unmatchedTracks) = 1

\* C8: in the output of AssociationEngine::process every input cluster index
\* occurs at most once in matched, never in matched and unmatchedClusters
\* both, and len(matched) + len(unmatchedClusters) = len(clusters_in).
C8_ClustersPartitioned ==
    aPc = "done" =>
        /\ \A j \in 1..aIn.nC : Occurrences(MatchedClusters(aOut), j) <= 1
        /\ \A j \in 1..aIn.nC :
              Occurrences(MatchedClusters(aOut) \o aOut.unmatchedClusters, j) = 1
        /\ Len(aOut.matched) + Len(aOut.unmatchedClusters) = aIn.nC

\* C9: the m hits that trigger a promotion lie within n consecutive dwells.
C9_MOfNWindow ==
    \A k \in 1..Len(assoc.promoted) :
        LET h == assoc.promoted[k]
        IN /\ Len(h) >= cfg.m
           /\ h[Len(h)] - h[Len(h) - cfg.m + 1] + 1 <= cfg.n

\* C10: between dwells the initiator holds no candidate that has had n
\* opportunities without reaching m hits, and no promotion comes from a
\* candidate older than n opportunities.
C10_CandidateExpires ==
    /\ pc = "idle" =>
          \A k \in 1..Len(candidates) :
              ~( /\ dwellCount - candidates[k].history[1].dwellCount + 1 >= cfg.n
                 /\ candidates[k].hits < cfg.m )
    /\ \A k \in 1..Len(assoc.promoted) :
          assoc.promoted[k][Len(assoc.promoted[k])] - assoc.promoted[k][1] + 1 <= cfg.n

\* C11: between dwells the initiator holds no promoted candidate, no empty
\* candidate and no candidate whose first detection is more than n + 5 dwells
\* old.
C11_PurgedEveryDwell ==
    pc = "idle" =>
        \A k \in 1..Len(candidates) :
            /\ ~candidates[k].promoted
            /\ candidates[k].history # <<>>
            /\ dwellCount - candidates[k].history[1].dwellCount <= cfg.n + 5

\* C12: processDwell is invoked on the messages in the order of their append,
\* each at most once: the k-th invocation is on the k-th appended message, and
\* the queue holds exactly the appended messages not yet popped, in order.
C12_FifoOrder ==
    LET taken == Len(popped) + (IF pPc = "call" THEN 1 ELSE 0)
    IN /\ \A k \in 1..Len(popped) : popped[k].msg = k
       /\ pPc = "call" => curMsg = taken
       /\ messageQueue = [i \in 1..(appended - taken) |-> taken + i]

C12_Witness ==
    /\ Len(popped) = 2
    /\ popped[2].msg = 2
    /\ Len(messageQueue) = 1

\* C13: while stop() is not called, every appended message is eventually
\* passed to processDwell.
C13_NoMessageDropped ==
    \A m \in 1..MaxMsgs :
        (appended >= m) ~> (\E k \in 1..Len(popped) : popped[k].msg = m)

C13_Witness ==
    /\ sPc = "run"
    /\ appended = MaxMsgs
    /\ Len(popped) = MaxMsgs
    /\ popped[MaxMsgs].msg = MaxMsgs

\* C14: stop() cancels only between dwells.  A popped dwell is processed and
\* its cycle completed before the processing thread exits; at most one
\* processDwell is entered after running_ became false; the sender is closed
\* only once the processing thread has exited, and was open in every cycle;
\* once stop() has returned, no processDwell is in progress and none begins.
C14_StopBetweenDwells ==
    /\ [](/\ pPc = "exit" => Len(cycles) = Len(popped)
          /\ Cardinality({k \in 1..Len(popped) : ~popped[k].running}) <= 1
          /\ ~senderOpen => pPc = "exit"
          /\ \A k \in 1..Len(cycles) : cycles[k].senderOpen
          /\ sPc = "stopped" => pPc = "exit" /\ pc = "idle")
    /\ [][sPc = "stopped" => UNCHANGED <<tmVars, popped, cycles>>]_vars

C14_Witness ==
    /\ sPc = "stopped"
    /\ Len(cycles) = Len(popped)
    /\ \E k \in 1..Len(popped) : ~popped[k].running /\ cycles[k].handed

\* C15: every completed cycle handed the track table of its dwell to the
\* sender, whatever the number of tracks in it, and did so once (one cycle
\* per processDwell invocation).
C15_TableHandedEveryDwell ==
    /\ Len(cycles) <= Len(popped)
    /\ \A k \in 1..Len(cycles) :
          /\ cycles[k].msg = popped[k].msg
          /\ cycles[k].handed

\* C16: with sendDeletedTracks the table emitted for a dwell lists the tracks
\* deleted in that dwell with status Deleted; without it no emitted table
\* holds a Deleted track.
C16_DeletedTracksEmitted ==
    \A k \in 1..Len(cycles) :
        IF cfg.sendDeletedTracks
        THEN \A id \in cycles[k].deleted :
                 \E i \in 1..Len(cycles[k].table) :
                     /\ cycles[k].table[i].trackId = id
                     /\ cycles[k].table[i].status = "Deleted"
        ELSE \A i \in 1..Len(cycles[k].table) :
                 cycles[k].table[i].status # "Deleted"

\* C17: with confirmHits > 1, a track promoted in a dwell leaves that dwell
\* (maintenance and deletion done) with hitCount = 1, quality = 0.5, status
\* Tentative, missCount = 0, consecutiveMisses = 0 and age = 0.
C17_NewTrackFields ==
    (pc = "deleted" /\ cfg.confirmHits > 1) =>
        \A i \in 1..Len(tracks) :
            tracks[i].id \notin Ids(startTracks) =>
                /\ tracks[i].hitCount = 1
                /\ 2 * tracks[i].quality = QOne
                /\ tracks[i].status = "Tentative"
                /\ tracks[i].missCount = 0
                /\ tracks[i].consecutiveMisses = 0
                /\ tracks[i].age = 0

\* C18: a dwell without clusters does not reach the configured associator;
\* every track live at its start is predicted (age + 1) and records exactly
\* one miss with hitCount unchanged; no track and no candidate is created and
\* the candidates are left as they were.
C18_EmptyDwell ==
    [][(pc = "predicted" /\ pc' = "associated" /\ assoc'.nClusters = 0) =>
          /\ ~assoc'.invoked
          /\ candidates' = candidates
          /\ nextId' = nextId
          /\ Len(tracks') = Len(startTracks)
          /\ \A i \in 1..Len(startTracks) :
                /\ tracks'[i].id = startTracks[i].id
                /\ tracks'[i].age = startTracks[i].age + 1
                /\ tracks'[i].missCount = startTracks[i].missCount + 1
                /\ tracks'[i].consecutiveMisses = startTracks[i].consecutiveMisses + 1
                /\ tracks'[i].hitCount = startTracks[i].hitCount]_vars

C18_Witness ==
    /\ pc = "deleted"
    /\ assoc.nClusters = 0
    /\ candidates # <<>>
    /\ assoc.deleted # {}
    /\ \E i \in 1..Len(tracks) : tracks[i].status = "Coasting"

\* C19: under GNN with costThreshold = gatingThreshold (the default), one
\* track and one cluster at a Mahalanobis squared distance equal to the
\* gating threshold are reported as matched.
C19_GateBoundaryAccepted ==
    ( /\ aPc = "done"
      /\ cfg.method = "gnn"
      /\ cfg.costThreshold = cfg.gatingThreshold
      /\ aIn.nT = 1 /\ aIn.nC = 1
      /\ ~aIn.sing[1]
      /\ aIn.dist[1][1] = cfg.gatingThreshold ) =>
        /\ Len(aOut.matched) = 1
        /\ aOut.matched[1].trackIndex = 1
        /\ aOut.matched[1].clusterIndex = 1

\* C20: whatever the method, no reported match has a Mahalanobis squared
\* distance above association.gatingThreshold.
C20_GateIsGatingThreshold ==
    aPc = "done" =>
        \A k \in 1..Len(aOut.matched) :
            aIn.dist[aOut.matched[k].trackIndex][aOut.matched[k].clusterIndex]
                <= cfg.gatingThreshold

\* C21: the dt handed to predict is positive and at most ten seconds, for the
\* first dwell and for equal, decreasing and far-apart timestamps.
C21_DtInRange ==
    (aPc = "dt" /\ aOut.ts > 0) => (0 < aOut.dt /\ aOut.dt <= TenSeconds)

C21_Witness ==
    /\ aPc = "dt"
    /\ aOut.ts > 0
    /\ aOut.last > aOut.ts
    /\ SubTimestamp(aOut.ts, aOut.last) > TenSeconds
    /\ aOut.dt = aIn.cyclePeriod

\* C22: two runs fed the same messages hold the same candidates, make the
\* same promotions with the same initial velocity, whatever the instants at
\* which each run processes the dwells.
C22_Deterministic ==
    aPc = "clock-done" => aOut.runA = aOut.runB

\* C23: after every dwell the number of tracks held by the track manager
\* does not exceed system.maxTracks.
C23_MaxTracksHonoured ==
    pc = "idle" => Len(tracks) <= cfg.maxTracks

\* C24: whenever start() has returned false, a stop() has returned or the
\* object is destroyed, the processing thread is neither running nor
\* joinable and the sender is closed; a stop() that runs after another
\* stop() finds nothing to join, and the thread is joined at most once.
C24_ThreadReleased ==
    /\ sPc \in {"failed", "stopped", "destroyed"} =>
          /\ pPc \in {"none", "exit"}
          /\ ~aOut.joinable
          /\ ~senderOpen
    /\ (sPc = "join" /\ aOut.stopRuns >= 1) => ~aOut.joinable
    /\ aOut.joins <= 1

\* a pipeline that processed a dwell, was stopped twice and then destroyed
C24_Witness ==
    /\ sPc = "destroyed"
    /\ aOut.stops = 2
    /\ aOut.joins = 1
    /\ Len(cycles) >= 1

ProbabilitiesOK(s) ==
    /\ \A m \in Models : s.num[m] >= 0
    /\ s.den > 0
    /\ SumOver(s.num, NumModels) = s.den

IsUniform(s) == \A m \in Models : s.num[m] * NumModels = s.den

SameFraction(a, b) == a.n * b.d = b.n * a.d

\* C25: after every predict and every update the five mode probabilities are
\* non-negative and sum to 1; predict leaves them as they were; update makes
\* them proportional to likelihood times predicted probability, or uniform.
C25_ModeProbabilities ==
    aOut.op \in {"predict", "update"} =>
       /\ ProbabilitiesOK(aOut.imm)
       /\ aOut.op = "predict" =>
             aOut.imm.num = aOut.before.num /\ aOut.imm.den = aOut.before.den
       /\ aOut.op = "update" =>
             \/ IsUniform(aOut.imm)
             \/ LET p == [j \in Models |-> aOut.lik[j] * cBar(aOut.before, aIn.T)[j]]
                IN \A j \in Models :
                      aOut.imm.num[j] * SumOver(p, NumModels) = p[j] * aOut.imm.den

\* an update that renormalised to probabilities that are not uniform, one of
\* them zero because the likelihood of its model underflowed
C25_Witness ==
    /\ aOut.op = "update"
    /\ ~IsUniform(aOut.imm)
    /\ \E m \in Models : aOut.lik[m] = 0 /\ aOut.before.num[m] > 0 /\ aOut.imm.num[m] = 0
    /\ \E m \in Models : aOut.imm.num[m] * aOut.before.den # aOut.before.num[m] * aOut.imm.den

\* C26: a model whose innovation covariance cannot be inverted keeps its
\* state and covariance in the update; if all five fail, the merged state and
\* covariance are those of before the update and the mode probabilities are
\* uniform.
C26_AllFailRetained ==
    aOut.op = "update" =>
       /\ \A m \in aOut.failed :
             /\ aOut.imm.x[m] = aOut.before.x[m]
             /\ aOut.imm.P[m] = aOut.before.P[m]
       /\ aOut.failed = Models =>
             /\ SameFraction(aOut.imm.mergedState, aOut.before.mergedState)
             /\ SameFraction(aOut.imm.mergedCovariance, aOut.before.mergedCovariance)
             /\ IsUniform(aOut.imm)

\* the matched entries of the output for track t
MatchesOf(o, t) == {k \in 1..Len(o.matched) : o.matched[k].trackIndex = t}

\* the clusters with a weight for track t, and their betas (numerators over
\* the denominator of the track's weights)
BetaOf(w, j) ==
    LET k == CHOOSE k \in 1..Len(w.clusterWeights) : w.clusterWeights[k].cluster = j
    IN w.clusterWeights[k].num

WeightedClusters(w) == {w.clusterWeights[k].cluster : k \in 1..Len(w.clusterWeights)}

\* C27: under JPDA a track with no gated measurement or with betaZero > 0.5
\* is unmatched; any other track is matched exactly once, to the cluster of
\* lowest index among those of maximum beta, with distance 1 - max beta.
C27_MaxBetaReported ==
    (aPc = "done" /\ cfg.method = "jpda" /\ AssociatorInvoked(aIn.nT, aIn.nC)) =>
       \A t \in 1..aIn.nT :
          LET w == computeWeights(cfg, aIn.nT, aIn.nC, aIn.dist, aIn.sing)[t]
              gated == {j \in 1..aIn.nC : ~aIn.sing[t] /\ aIn.dist[t][j] <= cfg.gateSize}
          IN IF gated = {} \/ 2 * w.betaZeroNum > w.den
             THEN /\ MatchesOf(aOut, t) = {}
                  /\ t \in SeqRange(aOut.unmatchedTracks)
             ELSE /\ WeightedClusters(w) = gated
                  /\ t \notin SeqRange(aOut.unmatchedTracks)
                  /\ \E k \in 1..Len(aOut.matched) :
                        /\ MatchesOf(aOut, t) = {k}
                        /\ LET j == aOut.matched[k].clusterIndex
                           IN /\ j \in gated
                              /\ \A i \in gated : BetaOf(w, i) <= BetaOf(w, j)
                              /\ \A i \in gated : BetaOf(w, i) = BetaOf(w, j) => j <= i
                              /\ aOut.matched[k].distance
                                    = 1000 - ((1000 * BetaOf(w, j)) \div w.den)

\* a track with two gated clusters of equal beta, reported with the first
C27_Witness ==
    /\ aPc = "done"
    /\ cfg.method = "jpda"
    /\ aIn.nT >= 1
    /\ aIn.nC = 2
    /\ ~aIn.sing[1]
    /\ aIn.dist[1][1] = aIn.dist[1][2]
    /\ aIn.dist[1][1] <= cfg.gateSize
    /\ \E k \in 1..Len(aOut.matched) :
          aOut.matched[k].trackIndex = 1 /\ aOut.matched[k].clusterIndex = 1

\* C28: under JPDA, when a track has two gated measurements of equal beta on
\* opposite sides of its predicted position and is reported matched, the
\* update of that dwell leaves the position no farther from the midpoint of
\* the two measurements than the prediction was.
C28_UpdateTowardMidpoint ==
    ( /\ aPc = "jpda-done"
      /\ aIn.z1 - aIn.x = aIn.x - aIn.z2
      /\ aIn.z1 # aIn.x
      /\ aOut.dist[1] <= cfg.gateSize
      /\ aOut.matched # 0 ) =>
       Abs(2 * aOut.position - (aIn.z1 + aIn.z2)) <= Abs(2 * aIn.x - (aIn.z1 + aIn.z2))

\* the target's track, once there is one, was associated on every dwell
NeverMissed ==
    /\ deletedIds = {}
    /\ \A i \in 1..Len(tracks) : tracks[i].missCount = 0

\* C29: with m = 3, n = 5, confirmHits = 3 and one cluster of one target on
\* every dwell: after dwell 1 there is one candidate and no track; while the
\* track is never missed, there is a track from the end of dwell 3 on, it is
\* Confirmed from the end of dwell 5 on, only one track id is ever issued and
\* there is never a second candidate.
C29_StraightLineScenario ==
    /\ (pc = "idle" /\ dwellCount = 1) => (Len(candidates) = 1 /\ tracks = <<>>)
    /\ NeverMissed =>
          /\ (pc = "idle" /\ dwellCount >= 3) => Len(tracks) = 1
          /\ (pc = "idle" /\ dwellCount >= 5) =>
                (Len(tracks) = 1 /\ tracks[1].status = "Confirmed")
          /\ Len(tracks) <= 1
          /\ Len(issuedIds) <= 1
          /\ Len(candidates) <= 1
          /\ (tracks # <<>> /\ pc # "predicted") => candidates = <<>>

\* the end of dwell 5 with the target's track just confirmed
C29_Witness ==
    /\ cfg = ScenarioConfig
    /\ pc = "idle"
    /\ dwellCount = 5
    /\ NeverMissed
    /\ Len(tracks) = 1
    /\ tracks[1].status = "Confirmed"
    /\ tracks[1].hitCount = 3

\* C30: the quality of every track is between 0 and 1 after every dwell (and
\* at every stage of a dwell).
C30_QualityInRange ==
    \A i \in 1..Len(tracks) : 0 <= tracks[i].quality /\ tracks[i].quality <= QOne

\* a track whose boost was cut at 1.0, and that has been missed before
C30_Witness ==
    /\ pc = "maintained"
    /\ \E i \in 1..Len(tracks) : \E j \in 1..Len(startTracks) :
          /\ tracks[i].id = startTracks[j].id
          /\ tracks[i].consecutiveMisses = 0
          /\ tracks[i].missCount > 0
          /\ startTracks[j].quality + cfg.qualityBoost > QOne
          /\ tracks[i].quality = QOne

\* C31: the classification a track leaves classifyTracks with is that of the
\* first rule that matches, in the order Clutter (speed < 2), DroneRotary
\* (CTR > 0.4, 5 < speed < 30), DroneFixedWing (CV > 0.3, 15 < speed < 80),
\* Bird (CA > 0.3, 5 < speed < 25), Unknown; the classification the track
\* came with plays no part.
C31_FirstMatchingRule ==
    aPc = "classified" =>
       LET v == aIn.speed
           cv == aIn.probs[1]
           ca == aIn.probs[2] + aIn.probs[3]
           ctr == aIn.probs[4] + aIn.probs[5]
           clutter == v < 2
           rotary == 20 * ctr > 8 * 20 /\ 5 < v /\ v < 30
           fixed == 10 * cv > 3 * 20 /\ 15 < v /\ v < 80
           bird == 10 * ca > 3 * 20 /\ 5 < v /\ v < 25
       IN aOut.classification =
             CASE clutter -> "Clutter"
               [] ~clutter /\ rotary -> "DroneRotary"
               [] ~clutter /\ ~rotary /\ fixed -> "DroneFixedWing"
               [] ~clutter /\ ~rotary /\ ~fixed /\ bird -> "Bird"
               [] OTHER -> "Unknown"

\* a track that two rules match and that came in with the classification of
\* the later one
C31_Witness ==
    /\ aPc = "classified"
    /\ aIn.classification = "DroneFixedWing"
    /\ aIn.speed = 16
    /\ aIn.probs[1] > 6
    /\ aIn.probs[4] + aIn.probs[5] > 8
    /\ aOut.classification = "DroneRotary"

\* a detection whose six fields lie inclusively within their bounds
WithinBounds(d) ==
    \A f \in FieldNames : d[f] # NaN /\ FieldMin <= d[f] /\ d[f] <= FieldMax

\* C32: process returns exactly the detections of its input whose six fields
\* lie inclusively within their bounds, in their order, and every call adds
\* to totalRejected the number of detections it removed.
C32_FilterExact ==
    /\ aOut.filtered = SelectSeq(aIn.raw, WithinBounds)
    /\ aOut.rejected = aIn.rejectedBefore
                          + (Len(aIn.raw) - Len(SelectSeq(aIn.raw, WithinBounds)))

\* the clusters that hold detection i
ClustersOf(i) == {k \in 1..Len(aOut) : i \in SeqRange(aOut[k].detectionIndices)}

Neighbours(i) == {j \in 1..Len(aIn.dets) : withinEpsilon(aIn.dets[i], aIn.dets[j])}

IsCore(i) == Cardinality(Neighbours(i)) >= aIn.minPoints

\* C33: under density clustering two core detections that are neighbours are
\* in the same cluster, a non-core detection with a core neighbour is in the
\* cluster of one of its core neighbours, and a detection that is not core
\* and has no core neighbour is a cluster of its own; for every input order.
C33_CoreClosure ==
    (aPc = "clustered" /\ aIn.method = "dbscan") =>
       \A i \in 1..Len(aIn.dets) :
          /\ ClustersOf(i) # {}
          /\ IsCore(i) =>
                \A j \in Neighbours(i) : IsCore(j) => ClustersOf(i) = ClustersOf(j)
          /\ (~IsCore(i) /\ \E j \in Neighbours(i) : IsCore(j)) =>
                \E j \in Neighbours(i) : IsCore(j) /\ ClustersOf(i) = ClustersOf(j)
          /\ (~IsCore(i) /\ ~\E j \in Neighbours(i) : IsCore(j)) =>
                \A k \in ClustersOf(i) : aOut[k].detectionIndices = <<i>>

\* a border detection that comes first in the input (labelled noise, then
\* absorbed) and, behind it, core detections of which one is reached only
\* through another
C33_Witness ==
    /\ aPc = "clustered"
    /\ aIn.method = "dbscan"
    /\ aIn.minPoints = 3
    /\ Len(aIn.dets) = 4
    /\ ~IsCore(1)
    /\ IsCore(2) /\ IsCore(3) /\ 2 \in Neighbours(1) /\ 3 \notin Neighbours(1)
    /\ Len(aOut) = 1
    /\ aOut[1].detectionIndices = <<1, 2, 3, 4>>

\* C40: under both clusterers every detection index is in the
\* detectionIndices of exactly one cluster, exactly once, no cluster is empty,
\* and the numDetections of the clusters sum to the number of detections.
C40_ClustersPartition ==
    aPc = "clustered" =>
       /\ \A i \in 1..Len(aIn.dets) : Cardinality(ClustersOf(i)) = 1
       /\ \A k \in 1..Len(aOut) :
             /\ aOut[k].detectionIndices # <<>>
             /\ aOut[k].numDetections = Len(aOut[k].detectionIndices)
             /\ SeqRange(aOut[k].detectionIndices) \subseteq 1..Len(aIn.dets)
             /\ Cardinality(SeqRange(aOut[k].detectionIndices))
                   = Len(aOut[k].detectionIndices)
       /\ SumOver([k \in 1..Len(aOut) |-> aOut[k].numDetections], Len(aOut))
             = Len(aIn.dets)

\* range-gate clustering of four detections into a group of two that skipped
\* a detection of the other lane, and two single clusters
C40_Witness ==
    /\ aPc = "clustered"
    /\ aIn.method = "range_based"
    /\ Len(aIn.dets) = 4
    /\ Len(aOut) = 3
    /\ aOut[1].numDetections = 2
    /\ \E i \in 1..4 : /\ aIn.dets[i].azimuth # aIn.dets[aOut[1].detectionIndices[1]].azimuth
                       /\ aIn.dets[i].range = aIn.dets[aOut[1].detectionIndices[1]].range

\* C34: a candidate gains at most one hit per dwell: the dwell indices of
\* every candidate's history are pairwise distinct, and every promoted history
\* holds detections of at least m distinct dwells.
C34_OneHitPerDwell ==
    /\ \A k \in 1..Len(candidates) :
          \A i, j \in 1..Len(candidates[k].history) :
              i # j => candidates[k].history[i].dwellCount
                           # candidates[k].history[j].dwellCount
    /\ \A k \in 1..Len(assoc.promoted) :
          Cardinality({assoc.promoted[k][j] : j \in 1..Len(assoc.promoted[k])}) >= cfg.m

\* the buffer of len bytes holds the header and the declared records
HoldsDeclared ==
    IF aIn.fn = "deserialize"
    THEN /\ aIn.len >= 20
         /\ CountAtMost(aIn.count, (aIn.len - 20) \div SizeofDetection)
    ELSE /\ aIn.len >= 16
         /\ CountAtMost(aIn.count, (aIn.len - 16) \div SizeofTrackUpdateMessage)

\* C35: deserialize and deserializeTrackTable return true only if the buffer
\* holds the declared records (len >= 20 + 64 * numDetections, len >= 16 +
\* 128 * numTracks) for every 32-bit count; otherwise they return false and
\* copy nothing from beyond the first len bytes.
C35_LengthChecked ==
    aPc = "returned" =>
        /\ aOut.ret = "true" => HoldsDeclared
        /\ ~HoldsDeclared => aOut.ret = "false" /\ ~aOut.beyond

\* C36: after any dwell every track in the table has hitCount + missCount =
\* age + 1, under all three associators.
C36_HitsMissesAge ==
    pc = "idle" =>
        \A i \in 1..Len(tracks) :
            tracks[i].hitCount + tracks[i].missCount = tracks[i].age + 1

C36_Witness ==
    /\ pc = "idle"
    /\ cfg.method = "jpda"
    /\ \E i \in 1..Len(tracks) :
          /\ tracks[i].hitCount >= 2
          /\ tracks[i].missCount >= 1
          /\ tracks[i].age >= 2

\* C37: at the end of every processDwell every track in the table is not
\* Deleted; Confirmed implies consecutiveMisses = 0; Coasting implies
\* consecutiveMisses >= 1; Tentative implies hitCount < confirmHits;
\* consecutiveMisses <= missCount and consecutiveMisses < maxCoastingDwells.
C37_EndOfDwellStatus ==
    pc = "idle" =>
        \A i \in 1..Len(tracks) :
            LET t == tracks[i]
            IN /\ t.status # "Deleted"
               /\ t.status = "Confirmed" => t.consecutiveMisses = 0
               /\ t.status = "Coasting" => t.consecutiveMisses >= 1
               /\ t.status = "Tentative" => t.hitCount < cfg.confirmHits
               /\ t.consecutiveMisses <= t.missCount
               /\ t.consecutiveMisses < cfg.maxCoastingDwells

C37_Witness ==
    /\ pc = "idle"
    /\ dwellCount >= 3
    /\ \E i \in 1..Len(tracks) :
          /\ tracks[i].status = "Coasting"
          /\ tracks[i].consecutiveMisses = 1
          /\ tracks[i].missCount >= 1

\* the cost matrix and the reduced matrix of the association input
AssocCost == GNNCostMatrix(cfg, aIn.nT, aIn.nC, aIn.dist, aIn.sing)
AssocReduced ==
    LET n == Max2(aIn.nT, aIn.nC)
    IN ColReduce(RowReduce(PadSquare(AssocCost, aIn.nT, aIn.nC), n), n)

\* the one-to-one assignments of tracks to gated clusters (0: no cluster)
GatedAssignments ==
    {f \in [1..aIn.nT -> 0..aIn.nC] :
        /\ \A i \in 1..aIn.nT : f[i] # 0 => AssocCost[i][f[i]] < cfg.costThreshold
        /\ \A i, k \in 1..aIn.nT : i # k /\ f[i] # 0 => f[i] # f[k]}

RECURSIVE TotalCost(_, _)
TotalCost(f, i) ==
    IF i = 0 THEN 0
    ELSE TotalCost(f, i - 1) + (IF f[i] # 0 THEN AssocCost[i][f[i]] ELSE 0)

Pairs(f) == Cardinality({i \in 1..aIn.nT : f[i] # 0})

\* the assignment behind the matched pairs of the output
ReturnedAssignment ==
    [i \in 1..aIn.nT |->
        IF \E k \in 1..Len(aOut.matched) : aOut.matched[k].trackIndex = i
        THEN aOut.matched[CHOOSE k \in 1..Len(aOut.matched) :
                              aOut.matched[k].trackIndex = i].clusterIndex
        ELSE 0]

\* C38 as stated: among all one-to-one assignments of tracks to gated clusters
\* with the same number of matched pairs, none has a smaller total cost than
\* the one hungarianAssignment returns.
C38_GloballyOptimal ==
    aPc = "done" /\ cfg.method = "gnn" =>
        \A f \in GatedAssignments :
            Pairs(f) = Pairs(ReturnedAssignment)
                => TotalCost(f, aIn.nT) >= TotalCost(ReturnedAssignment, aIn.nT)

\* C38 amended: hungarianAssignment returns a one-to-one assignment of tracks
\* to gated clusters in which every matched track holds a cluster whose
\* reduced cost is no greater than that of any cluster left unmatched.
C38_GreedyOnReducedCost ==
    aPc = "done" /\ cfg.method = "gnn" =>
        /\ ReturnedAssignment \in GatedAssignments
        /\ \A i \in 1..aIn.nT, k \in 1..aIn.nC :
              /\ ReturnedAssignment[i] # 0
              /\ \A t \in 1..aIn.nT : ReturnedAssignment[t] # k
              => AssocReduced[i][ReturnedAssignment[i]] <= AssocReduced[i][k]

C38_Witness ==
    /\ aPc = "done"
    /\ cfg.method = "gnn"
    /\ aIn.nT = 2
    /\ aIn.nC = 2
    /\ ReturnedAssignment = <<1, 0>>
    /\ AssocReduced[1][1] < AssocReduced[1][2]
    /\ AssocCost[2][2] < INF

\* C39: stop() always terminates: once running_ is stored false, stop()
\* returns, the processing thread and the receiver thread having exited.
C39_StopTerminates ==
    (sPc = "notify") ~> (sPc = "stopped" /\ pPc = "exit" /\ aPc = "receiveExit")

C39_Witness ==
    /\ sPc = "stopped"
    /\ aOut.missedWakeup
    /\ pPc = "exit"
    /\ aPc = "receiveExit"
    /\ Len(popped) >= 1

====
